---- MODULE Spec2Model ----
(***************************************************************************)
(* A model of the aggregation caches of the Service Control client:        *)
(*   - google/scc/aggregators/check_request.py   (check Aggregator)        *)
(*   - google/scc/aggregators/report_request.py  (report Aggregator)       *)
(*   - endpoints_management/control/quota_request.py (quota Aggregator)    *)
(*   - google/scc/caches.py (create, DequeOutTTLCache)                     *)
(* Time is counted in whole ticks of the injected timer.  Every public     *)
(* method of an aggregator runs under the cache's re-entrant lock, so each *)
(* call is one atomic action.                                              *)
(***************************************************************************)
EXTENDS Integers, Sequences, FiniteSets, TLC

VARIABLES
    now,        \* the value the injected timer returns
    c_opts,     \* check Aggregator._options (CheckAggregationOptions)
    c_cache,    \* check Aggregator._cache: <<>> (None) or <<cache object>>
    call,       \* the last call made on an aggregator, with what it returned
    h_added,    \* history: per signature, the last add_response (time, resp)
                \* made on the check aggregator since its last clear()
    h_hit,      \* history: per signature, whether a check has been merged into
                \* a cached passing response and no flush has returned it since
    r_opts,     \* report Aggregator._options (ReportAggregationOptions)
    r_cache,    \* report Aggregator._cache: <<>> (None) or <<cache object>>
    q_opts,     \* quota Aggregator._options (QuotaOptions)
    q_cache,    \* quota Aggregator._cache: <<>> (None) or <<cache object>>
    q_out,      \* quota Aggregator._out: the deque of requests to send
    h_missed,   \* history: per signature, the last request a missing
                \* allocate_quota enqueued since the last quota flush
    h_further   \* history: per signature, <<>> or, since a positive response
                \* was added to its entry and no flush or clear followed, the
                \* cost pending at that moment (pre) and the number (n) and
                \* summed cost (sum) of the allocate_quota calls made since
VARIABLES
    running,    \* Client._running
    stopped,    \* Client._stopped
    thread,     \* Client._thread: <<>> (None) or <<"Thread">>
    scheduler,  \* Client._scheduler: <<>> (None) or <<"scheduler">>
    queue,      \* the events of the scheduler object last created, each
                \* [time, priority, action]
    pc,         \* where the calling thread is inside a method of Client
    pc_req,     \* the request of the method the calling thread is inside
    f_pc,       \* where the thread of _schedule_flushes is
    f_task,     \* the _flush_schedule_ method that thread is inside
    f_todo,     \* the _flush_schedule_ methods _initialize_flushing has yet to call
    f_reqs,     \* the flushed requests that thread has yet to send
    f_own,      \* <<>> when the scheduler object that thread runs is the one
                \* last created, else <<the events of the object it runs>>
    f_old,      \* <<>>, or <<[pc, task, todo, reqs, own]>>: a second thread
                \* of _schedule_flushes that is alive, with its position
    sent,       \* the RPCs the last step put on the transport, each
                \* [rpc, outcome]
    ret,        \* <<>>, or <<[name, raised, value]>> when the last step ended
                \* a method of Client: what it raised or returned
    h_stop_returned  \* history: a call of stop() has returned
VARIABLES
    l_call,     \* per thread calling the quota aggregator: <<>>, or <<[name,
                \* req, errors, entered, done]>>: the method it is inside, the
                \* number of locks of its with statement it has entered, and
                \* whether the body of the with statement has run
    l_owner     \* per lock of the quota aggregator (that of _cache, that of
                \* _out): <<>>, or <<the thread that holds it>>

checkVars == <<c_opts, c_cache, h_added, h_hit>>

reportVars == <<r_opts, r_cache>>

quotaVars == <<q_opts, q_cache, q_out, h_missed, h_further>>

lifeVars == <<running, stopped, thread, scheduler, queue>>

callerVars == <<pc, pc_req>>

flusherVars == <<f_pc, f_task, f_todo, f_reqs, f_own, f_old>>

lockVars == <<l_call, l_owner>>

clientVars ==
    <<lifeVars, callerVars, flusherVars, sent, ret, h_stop_returned, lockVars>>

vars == <<now, call, checkVars, reportVars, quotaVars, clientVars>>

-----------------------------------------------------------------------------
(* Bounds of the exploration *)

MaxTime == 3

MaxMerged == 2

-----------------------------------------------------------------------------
(* Messages *)

ServiceName == "service.with_cache"

OperationNames == {"m1", "m2"}

ConsumerIds == {"testConsumerID"}

Importances == {"LOW", "HIGH"}

\* messages.Operation, restricted to the fields the aggregators read
Operations ==
    [operationName : OperationNames, consumerId : ConsumerIds,
     importance : Importances, operationId : {"op"}]

\* messages.ServicecontrolServicesCheckRequest with its check_request.operation
CheckRequests == [serviceName : {ServiceName}, operation : Operations]

\* messages.CheckResponse: a passing response and one with checkErrors
CheckResponses == {"OK", "NOT_FOUND"}

checkErrors(resp) == IF resp = "NOT_FOUND" THEN <<"NOT_FOUND">> ELSE <<>>

\* a value a call returns: <<>> is Python's None, <<x>> is the object x
None == <<>>

Some(x) == <<x>>

\* check_request.sign: the digest is fed operationName, consumerId (labels and
\* metric value sets are empty here); importance and operationId are not fed.
\* The md5 digest is taken to be collision-free: it is the tuple of what is fed.
sign(check_request) ==
    <<check_request.operation.operationName, check_request.operation.consumerId>>

Sigs == {sign(r) : r \in CheckRequests}

-----------------------------------------------------------------------------
(* Sequence helpers *)

Range(s) == {s[i] : i \in 1..Len(s)}

\* all orderings of a finite set, as sequences without repetition
Perms(S) ==
    {s \in [1..Cardinality(S) -> S] : \A i, j \in 1..Cardinality(S) : s[i] = s[j] => i = j}

Remove(s, k) == SelectSeq(s, LAMBDA x : x # k)

-----------------------------------------------------------------------------
(* CheckAggregationOptions *)

\* CheckAggregationOptions.__new__: an expiration not above flush_interval is
\* replaced by flush_interval + 1ms (one tick)
CheckAggregationOptions(num_entries, flush_interval, expiration) ==
    [num_entries |-> num_entries,
     flush_interval |-> flush_interval,
     expiration |-> IF expiration <= flush_interval
                    THEN flush_interval + 1 ELSE expiration]

-----------------------------------------------------------------------------
(* caches.DequeOutTTLCache over cachetools.TTLCache *)

\* expiry with the comparison off by one: expired at the expire time itself
TTLExpired_inclusive(expire, t) == expire <= t

\* a link of the TTL cache has expired when its expire time is before the timer
TTLExpired(expire, t) == expire < t

\* a new cache: no links, nothing tracked, an empty out_deque
NewCache(keys, maxsize, ttl) ==
    [maxsize |-> maxsize, ttl |-> ttl,
     links |-> [k \in keys |-> <<>>],       \* key -> <<expire>> when stored
     lru |-> <<>>,                          \* stored keys, least recent first
     tracking |-> [k \in keys |-> <<>>],    \* _tracking: key -> <<value>>
     out_deque |-> <<>>]

\* create with the test for a cache being wanted reduced to num_entries = 0
create_unless_zero(keys, options) ==
    IF options.num_entries = 0
    THEN <<>>
    ELSE <<NewCache(keys, options.num_entries,
                    IF "expiration" \in DOMAIN options
                    THEN options.expiration ELSE options.flush_interval)>>

\* caches.create: no cache unless num_entries is positive; the ttl is the
\* options' expiration when they have one, else their flush_interval (the
\* options modelled all have a positive flush_interval)
create(keys, options) ==
    IF options.num_entries <= 0
    THEN <<>>
    ELSE <<NewCache(keys, options.num_entries,
                    IF "expiration" \in DOMAIN options
                    THEN options.expiration ELSE options.flush_interval)>>

Live(cache, k, t) ==
    cache.links[k] # <<>> /\ ~TTLExpired(cache.links[k][1], t)

\* TTLCache.expire: drop every expired link (the value stays in _tracking)
TTLExpire(cache, t) ==
    [cache EXCEPT
       !.links = [k \in DOMAIN cache.links |->
                    IF Live(cache, k, t) THEN cache.links[k] ELSE <<>>],
       !.lru = SelectSeq(cache.lru, LAMBDA k : Live(cache, k, t))]

\* TTLCache.__getitem__ by way of Mapping.get: the value, or <<>> for None
CacheGet(cache, k, t) ==
    IF Live(cache, k, t) THEN cache.tracking[k] ELSE <<>>

\* a hit makes the key the most recently used
Touch(cache, k, t) ==
    IF Live(cache, k, t)
    THEN [cache EXCEPT !.lru = Append(Remove(cache.lru, k), k)]
    ELSE cache

\* DequeOutTTLCache.__setitem__: expire, evict the least recently used keys
\* while a new key does not fit, store with a fresh expire time, track the value
\* (a cache of size below one takes no value)
SetItem(cache, k, v, t) ==
    LET c1 == TTLExpire(cache, t)
        isNew == c1.links[k] = <<>>
        keep == IF isNew /\ Len(c1.lru) + 1 > c1.maxsize
                THEN SubSeq(c1.lru, Len(c1.lru) - c1.maxsize + 2, Len(c1.lru))
                ELSE c1.lru
    IN IF c1.maxsize < 1
       THEN c1        \* "value too large": nothing is stored
       ELSE
       [c1 EXCEPT
          !.links = [x \in DOMAIN c1.links |->
                       IF x = k THEN <<t + c1.ttl>>
                       ELSE IF x \in Range(keep) THEN c1.links[x] ELSE <<>>],
          !.lru = Append(Remove(keep, k), k),
          !.tracking = [c1.tracking EXCEPT ![k] = <<v>>]]

\* out_deque without "del self._tracking[k]": the values moved to the deque
\* stay tracked
OutDeque_keeps_tracking(cache, t) ==
    LET c1 == TTLExpire(cache, t)
        gone == {k \in DOMAIN c1.tracking :
                   c1.tracking[k] # <<>> /\ c1.links[k] = <<>>}
    IN {[c1 EXCEPT
           !.lru = touched,
           !.out_deque = c1.out_deque \o
                           [i \in 1..Len(order) |-> c1.tracking[order[i]][1]]]
        : order \in Perms(gone), touched \in Perms(Range(c1.lru))}

\* DequeOutTTLCache.out_deque: expire, then move every tracked value whose key
\* no longer yields a value to the deque.  The dict is walked in an order the
\* program does not fix, so the results are all the possible outcomes.
OutDeque(cache, t) ==
    LET c1 == TTLExpire(cache, t)
        gone == {k \in DOMAIN c1.tracking :
                   c1.tracking[k] # <<>> /\ CacheGet(c1, k, t) = <<>>}
    IN {[c1 EXCEPT
           !.lru = touched,
           !.tracking = [k \in DOMAIN c1.tracking |->
                           IF k \in gone THEN <<>> ELSE c1.tracking[k]],
           !.out_deque = c1.out_deque \o
                           [i \in 1..Len(order) |-> c1.tracking[order[i]][1]]]
        : order \in Perms(gone), touched \in Perms(Range(c1.lru))}

\* MutableMapping.clear: every stored key is popped (tracked values stay)
CacheClear(cache) ==
    [cache EXCEPT !.links = [k \in DOMAIN cache.links |-> <<>>], !.lru = <<>>]

-----------------------------------------------------------------------------
(* check_request.CachedItem *)

CachedItem(resp, last_check_time) ==
    [response |-> resp, last_check_time |-> last_check_time,
     is_flushing |-> FALSE,
     op_aggregator |-> <<>>]     \* <<>> is None, else <<[op, n]>>

\* CachedItem.update_request: start an operation.Aggregator from the request's
\* operation, or add the operation to the one held; n counts the merged ones
update_request(item, req) ==
    IF item.op_aggregator = <<>>
    THEN [item EXCEPT !.op_aggregator = <<[op |-> req.operation, n |-> 1]>>]
    ELSE [item EXCEPT !.op_aggregator[1].n = @ + 1]

\* CachedItem.extract_request: <<>> when nothing was merged, else the request
\* built from the aggregated operation
extract_request(item) ==
    IF item.op_aggregator = <<>>
    THEN <<>>
    ELSE <<[serviceName |-> ServiceName,
            operation |-> item.op_aggregator[1].op,
            merged |-> item.op_aggregator[1].n]>>

-----------------------------------------------------------------------------
(* check_request.Aggregator *)

\* _is_current with the comparison off by one: an age equal to flush_interval
\* still counts as current
is_current_inclusive(item, options, t) ==
    (t - item.last_check_time) <= options.flush_interval

\* Aggregator._is_current
is_current(item, options, t) ==
    (t - item.last_check_time) < options.flush_interval

\* Aggregator.flush_interval: None without a cache, else options.expiration
check_flush_interval(cache, options) ==
    IF cache = <<>> THEN None ELSE Some(options.expiration)

\* _handle_cached_response without the update of last_check_time on the
\* checkErrors branch
handle_cached_response_no_mark(req, item, options, t) ==
    IF Len(checkErrors(item.response)) > 0
    THEN IF is_current(item, options, t)
         THEN <<item, Some(item.response)>>
         ELSE <<item, None>>
    ELSE LET upd == update_request(item, req)
         IN IF is_current(upd, options, t)
            THEN <<upd, Some(upd.response)>>
            ELSE <<[upd EXCEPT !.is_flushing = TRUE, !.last_check_time = t], None>>

\* Aggregator._handle_cached_response: <<item after the call, returned value>>
handle_cached_response(req, item, options, t) ==
    IF Len(checkErrors(item.response)) > 0
    THEN IF is_current(item, options, t)
         THEN <<item, Some(item.response)>>
         ELSE <<[item EXCEPT !.last_check_time = t], None>>
    ELSE LET upd == update_request(item, req)
         IN IF is_current(upd, options, t)
            THEN <<upd, Some(upd.response)>>
            ELSE <<[upd EXCEPT !.is_flushing = TRUE, !.last_check_time = t], None>>

\* the importance test left out: every operation is treated as LOW
is_important_never(op) == FALSE

\* the importance test of Aggregator.check
is_important(op) == op.importance # "LOW"

\* add_response keeping the response already cached (first writer wins)
updated_item_keeps_response(item, resp, t) ==
    [item EXCEPT !.last_check_time = t, !.is_flushing = FALSE]

\* what add_response stores for a signature that is already cached
updated_item(item, resp, t) ==
    [item EXCEPT !.last_check_time = t, !.response = resp, !.is_flushing = FALSE]

\* the exploration stops merging operations into an item at MaxMerged
CanMerge(item) ==
    IF Len(checkErrors(item.response)) > 0 \/ item.op_aggregator = <<>>
    THEN TRUE
    ELSE item.op_aggregator[1].n < MaxMerged

\* Aggregator.check
check(req) ==
    /\ IF c_cache = <<>>
       THEN /\ call' = [name |-> "check", req |-> req, ret |-> None]
            /\ UNCHANGED <<c_cache, h_hit>>
       ELSE IF is_important(req.operation)
       THEN /\ call' = [name |-> "check", req |-> req, ret |-> None]
            /\ UNCHANGED <<c_cache, h_hit>>
       ELSE LET cache == c_cache[1]
                signature == sign(req)
                got == CacheGet(cache, signature, now)
            IN IF got = <<>>
               THEN /\ call' = [name |-> "check", req |-> req, ret |-> None]
                    /\ UNCHANGED <<c_cache, h_hit>>
               ELSE LET res == handle_cached_response(req, got[1], c_opts, now)
                        c1 == Touch(cache, signature, now)
                    IN /\ CanMerge(got[1])
                       /\ c_cache' = <<[c1 EXCEPT !.tracking[signature] = <<res[1]>>]>>
                       /\ call' = [name |-> "check", req |-> req, ret |-> res[2]]
                       /\ h_hit' = [h_hit EXCEPT ![signature] =
                                      @ \/ Len(checkErrors(got[1].response)) = 0]
    /\ UNCHANGED <<now, c_opts, h_added, reportVars, quotaVars>>

\* Aggregator.add_response
check_add_response(req, resp) ==
    /\ IF c_cache = <<>>
       THEN UNCHANGED c_cache
       ELSE LET cache == c_cache[1]
                signature == sign(req)
                got == CacheGet(cache, signature, now)
                c1 == Touch(cache, signature, now)
            IN IF got = <<>>
               THEN c_cache' = <<SetItem(c1, signature, CachedItem(resp, now), now)>>
               ELSE c_cache' = <<SetItem(c1, signature, updated_item(got[1], resp, now), now)>>
    /\ call' = [name |-> "add_response", req |-> req, ret |-> None]
    /\ h_added' = [h_added EXCEPT ![sign(req)] = <<[time |-> now, resp |-> resp]>>]
    /\ UNCHANGED <<now, c_opts, h_hit, reportVars, quotaVars>>

\* the requests a flush builds from the items it took from the out_deque
extracted(items) ==
    LET reqs == [i \in 1..Len(items) |-> extract_request(items[i])]
        kept == SelectSeq(reqs, LAMBDA r : r # <<>>)
    IN [i \in 1..Len(kept) |-> kept[i][1]]

\* Aggregator.flush
check_flush ==
    /\ IF c_cache = <<>>
       THEN /\ call' = [name |-> "flush", req |-> <<>>, ret |-> <<>>]
            /\ UNCHANGED <<c_cache, h_hit>>
       ELSE \E c1 \in OutDeque(c_cache[1], now) :
               LET reqs == extracted(c1.out_deque)
               IN /\ call' = [name |-> "flush", req |-> <<>>, ret |-> reqs]
                  /\ c_cache' = <<[c1 EXCEPT !.out_deque = <<>>]>>
                  /\ h_hit' = [k \in Sigs |->
                                 h_hit[k] /\ k \notin {sign(r) : r \in Range(reqs)}]
    /\ UNCHANGED <<now, c_opts, h_added, reportVars, quotaVars>>

\* Aggregator.clear
check_clear ==
    /\ IF c_cache = <<>>
       THEN UNCHANGED c_cache
       ELSE \E c1 \in OutDeque(CacheClear(c_cache[1]), now) :
               c_cache' = <<[c1 EXCEPT !.out_deque = <<>>]>>
    /\ call' = [name |-> "clear", req |-> <<>>, ret |-> None]
    /\ h_added' = [k \in Sigs |-> <<>>]
    /\ h_hit' = [k \in Sigs |-> FALSE]
    /\ UNCHANGED <<now, c_opts, reportVars, quotaVars>>

\* the injected timer moves on
Tick ==
    /\ UNCHANGED lockVars
    /\ now < MaxTime
    /\ now' = now + 1
    /\ call' = [name |-> "tick", req |-> <<>>, ret |-> None]
    /\ sent' = <<>>
    /\ ret' = <<>>
    /\ UNCHANGED <<checkVars, reportVars, quotaVars>>
    /\ UNCHANGED <<lifeVars, callerVars, flusherVars, h_stop_returned>>

-----------------------------------------------------------------------------
(* google.scc.ReportAggregationOptions and report_request.Aggregator *)

MaxOps == 2

ReportAggregationOptions(num_entries, flush_interval) ==
    [num_entries |-> num_entries, flush_interval |-> flush_interval]

\* messages.ServicecontrolServicesReportRequest with its reportRequest.operations
ReportRequests ==
    [serviceName : {ServiceName},
     operations : UNION {[1..n -> Operations] : n \in 0..MaxOps}]

CACHED_OK == "CACHED_OK"

MAX_OPERATION_COUNT == 1000

\* the importance test of _has_high_important_operation, per operation
op_is_important(op) == op.importance # "LOW"

\* a test that holds as soon as one operation is not LOW
has_high_important_operation_any(req) ==
    \E i \in 1..Len(req.operations) : op_is_important(req.operations[i])

\* _has_high_important_operation: reduce(lambda x, y: x and is_important(y),
\* operations, True), the conjunction over all the operations
has_high_important_operation(req) ==
    \A i \in 1..Len(req.operations) : op_is_important(req.operations[i])

\* _sign_operation: the digest is fed consumerId, operationName (no labels)
sign_operation(op) == <<op.operationName, op.consumerId>>

\* _key_by_signature: dict((sign(op), op) for op in operations), the last
\* operation of a signature is the one kept
key_by_signature(operations) ==
    LET keys == {sign_operation(operations[i]) : i \in 1..Len(operations)}
        last(k) == CHOOSE i \in 1..Len(operations) :
                      /\ sign_operation(operations[i]) = k
                      /\ \A j \in 1..Len(operations) :
                            sign_operation(operations[j]) = k => j <= i
    IN [k \in keys |-> operations[last(k)]]

\* operation.Aggregator(op): the operation and how many were merged into it
OperationAggregator(op) == [op |-> op, n |-> 1]

\* operation.Aggregator.add
OperationAggregator_add(agg, op) == [agg EXCEPT !.n = @ + 1]

\* operation.Aggregator.as_operation
as_operation(agg) == [operation |-> agg.op, merged |-> agg.n]

\* the body of the loop of Aggregator.report for one signature
report_one(cache, key, op, t) ==
    LET agg == CacheGet(cache, key, t)
        c1 == Touch(cache, key, t)
    IN IF agg = <<>>
       THEN SetItem(c1, key, OperationAggregator(op), t)
       ELSE [c1 EXCEPT !.tracking[key] = <<OperationAggregator_add(agg[1], op)>>]

\* the loop of Aggregator.report over ops_by_signature.items() in one order
RECURSIVE report_all(_, _, _, _)
report_all(cache, by_sig, order, t) ==
    IF order = <<>>
    THEN cache
    ELSE report_all(report_one(cache, Head(order), by_sig[Head(order)], t),
                    by_sig, Tail(order), t)

\* the exploration stops merging operations into an aggregator at MaxMerged
CanReport(cache, by_sig, t) ==
    \A k \in DOMAIN by_sig :
        LET agg == CacheGet(cache, k, t)
        IN IF agg = <<>> THEN TRUE ELSE agg[1].n < MaxMerged

\* Aggregator.flush_interval of the report aggregator
report_flush_interval(cache, options) ==
    IF cache = <<>> THEN None ELSE Some(options.flush_interval)

\* Aggregator.report
report(req) ==
    /\ IF r_cache = <<>>
       THEN /\ call' = [name |-> "report", req |-> req, ret |-> None]
            /\ UNCHANGED r_cache
       ELSE IF has_high_important_operation(req)
       THEN /\ call' = [name |-> "report", req |-> req, ret |-> None]
            /\ UNCHANGED r_cache
       ELSE LET by_sig == key_by_signature(req.operations)
            IN /\ CanReport(r_cache[1], by_sig, now)
               /\ \E order \in Perms(DOMAIN by_sig) :
                     r_cache' = <<report_all(r_cache[1], by_sig, order, now)>>
               /\ call' = [name |-> "report", req |-> req, ret |-> Some(CACHED_OK)]
    /\ UNCHANGED <<now, r_opts, checkVars, quotaVars>>

\* a packing that puts all the operations in one request
report_requests_unsplit(flushed_ops) ==
    IF flushed_ops = <<>>
    THEN <<>>
    ELSE <<[serviceName |-> ServiceName, operations |-> flushed_ops]>>

\* the ReportRequests of at most MAX_OPERATION_COUNT operations each
RECURSIVE report_requests(_)
report_requests(flushed_ops) ==
    IF flushed_ops = <<>>
    THEN <<>>
    ELSE LET m == IF Len(flushed_ops) < MAX_OPERATION_COUNT
                  THEN Len(flushed_ops) ELSE MAX_OPERATION_COUNT
         IN <<[serviceName |-> ServiceName,
               operations |-> SubSeq(flushed_ops, 1, m)]>>
            \o report_requests(SubSeq(flushed_ops, m + 1, Len(flushed_ops)))

\* Aggregator.flush of the report aggregator
report_flush ==
    /\ IF r_cache = <<>>
       THEN /\ call' = [name |-> "report_flush", req |-> <<>>, ret |-> <<>>]
            /\ UNCHANGED r_cache
       ELSE \E c1 \in OutDeque(r_cache[1], now) :
               LET flushed_ops == [i \in 1..Len(c1.out_deque) |->
                                     as_operation(c1.out_deque[i])]
               IN /\ call' = [name |-> "report_flush", req |-> <<>>,
                              ret |-> report_requests(flushed_ops)]
                  /\ r_cache' = <<[c1 EXCEPT !.out_deque = <<>>]>>
    /\ UNCHANGED <<now, r_opts, checkVars, quotaVars>>

\* Aggregator.clear of the report aggregator
report_clear ==
    /\ IF r_cache = <<>>
       THEN UNCHANGED r_cache
       ELSE \E c1 \in OutDeque(CacheClear(r_cache[1]), now) :
               r_cache' = <<[c1 EXCEPT !.out_deque = <<>>]>>
    /\ call' = [name |-> "report_clear", req |-> <<>>, ret |-> None]
    /\ UNCHANGED <<now, r_opts, checkVars, quotaVars>>

-----------------------------------------------------------------------------
(* endpoints_management.control.quota_request.Aggregator *)

MaxOut == 1

QuotaMethodNames == {"m1"}

QuotaOperationIds == {"op1", "op2"}

Costs == {1}

\* sc_messages.QuotaOperation with one quota metric of the given cost
QuotaOperations ==
    [methodName : QuotaMethodNames, consumerId : ConsumerIds,
     operationId : QuotaOperationIds, quotaMode : {"BEST_EFFORT"},
     cost : Costs]

\* sc_messages.ServicecontrolServicesAllocateQuotaRequest with the
\* allocateOperation of its allocateQuotaRequest
AllocateQuotaRequests ==
    [serviceName : {ServiceName}, allocateOperation : QuotaOperations]

AllocateErrors == {<<>>, <<"RESOURCE_EXHAUSTED">>}

\* sc_messages.AllocateQuotaResponse
AllocateQuotaResponse(operationId, allocateErrors) ==
    [operationId |-> operationId, allocateErrors |-> allocateErrors]

\* caches.QuotaOptions
QuotaOptions(num_entries, flush_interval, expiration) ==
    [num_entries |-> num_entries, flush_interval |-> flush_interval,
     expiration |-> expiration]

\* caches.create(options, timer, use_deque=False): a plain TTL cache, or no
\* cache when the number of entries is negative
quota_create(keys, options) ==
    IF options.num_entries < 0
    THEN <<>>
    ELSE <<NewCache(keys, options.num_entries, options.expiration)>>

\* quota_request.sign: the digest is fed methodName, consumerId and the metric
\* names; the metric values add only their labels and currency, not the cost
quota_sign(req) ==
    <<req.allocateOperation.methodName, req.allocateOperation.consumerId>>

\* a plain TTLCache keeps no value of a key it has dropped
Purged(cache) ==
    [cache EXCEPT !.tracking = [k \in DOMAIN cache.tracking |->
                                  IF cache.links[k] = <<>>
                                  THEN <<>> ELSE cache.tracking[k]]]

\* cachetools.TTLCache.__setitem__
TTLSetItem(cache, k, v, t) == Purged(SetItem(cache, k, v, t))

\* quota_request.CachedItem.__init__
QuotaCachedItem(request, response, last_check_time) ==
    [request |-> request, response |-> response,
     last_check_time |-> last_check_time, is_in_flight |-> FALSE,
     op_aggregator |-> <<>>]      \* <<>> is None, else <<[op, cost, n]>>

\* the response allocate_quota makes up on a miss
temp_response(req) ==
    AllocateQuotaResponse(req.allocateOperation.operationId, <<>>)

\* the item of a miss left as the constructor made it, not in flight
temp_item_not_in_flight(req, t) ==
    QuotaCachedItem(req.allocateOperation, temp_response(req), t)

\* the item allocate_quota stores on a miss
temp_item(req, t) ==
    [QuotaCachedItem(req.allocateOperation, temp_response(req), t)
        EXCEPT !.is_in_flight = TRUE]

\* CachedItem.is_positive_response
is_positive_response(item) == Len(item.response.allocateErrors) = 0

\* aggregate with merge_operation keeping the value it already holds
aggregate_keeps_value(item, op) ==
    IF item.op_aggregator = <<>>
    THEN [item EXCEPT !.op_aggregator = <<[op |-> op, cost |-> op.cost, n |-> 1]>>]
    ELSE [item EXCEPT !.op_aggregator[1].n = @ + 1]

\* CachedItem.aggregate with QuotaOperationAggregator.__init__ and
\* merge_operation: the costs of the one metric are added (DELTA); n counts
\* the operations merged
aggregate(item, op) ==
    IF item.op_aggregator = <<>>
    THEN [item EXCEPT !.op_aggregator = <<[op |-> op, cost |-> op.cost, n |-> 1]>>]
    ELSE [item EXCEPT !.op_aggregator[1].cost = @ + op.cost,
                      !.op_aggregator[1].n = @ + 1]

\* QuotaOperationAggregator.as_quota_operation
as_quota_operation(agg) == [agg.op EXCEPT !.cost = agg.cost]

\* CachedItem.extract_request: <<item after the call, request>>
quota_extract_request(item) ==
    IF item.op_aggregator = <<>>
    THEN <<item, [serviceName |-> ServiceName, allocateOperation |-> item.request]>>
    ELSE <<[item EXCEPT !.op_aggregator = <<>>],
           [serviceName |-> ServiceName,
            allocateOperation |-> as_quota_operation(item.op_aggregator[1])]>>

\* Aggregator._should_refresh
should_refresh(item, options, t) ==
    (t - item.last_check_time) >= options.flush_interval

\* _should_expire with the comparison off by one: an age equal to expiration
\* does not count as expired
should_expire_exclusive(item, options, t) ==
    (t - item.last_check_time) > options.expiration

\* Aggregator._should_expire
should_expire(item, options, t) ==
    (t - item.last_check_time) >= options.expiration

\* Aggregator._in_flush_all: set in __init__ and never assigned again (clear
\* assigns the attribute in_flush_all)
in_flush_all == FALSE

\* Aggregator.flush_interval of the quota aggregator
quota_flush_interval(cache, options) ==
    IF cache = <<>> THEN None ELSE Some(options.flush_interval)

\* the exploration stops merging operations into an item at MaxMerged
CanAggregate(item, op) ==
    IF ~is_positive_response(item) \/ item.op_aggregator = <<>>
    THEN TRUE
    ELSE item.op_aggregator[1].n < MaxMerged

\* the hit branch of Aggregator.allocate_quota:
\* <<item after the call, the refresh request enqueued if any>>
allocate_quota_hit(item, req, options, t) ==
    LET refresh == ~item.is_in_flight /\ should_refresh(item, options, t)
        ex == quota_extract_request([item EXCEPT !.is_in_flight = TRUE])
        negative == ~is_positive_response(item)
        \* the request extracted from an item without an aggregator is the
        \* item's own, so the NORMAL mode set on it stays on the item
        marked == IF negative /\ item.op_aggregator = <<>>
                  THEN [ex[1] EXCEPT !.request.quotaMode = "NORMAL"]
                  ELSE ex[1]
        refresh_request == IF negative
                           THEN [ex[2] EXCEPT !.allocateOperation.quotaMode = "NORMAL"]
                           ELSE ex[2]
        refreshed == IF refresh THEN marked ELSE item
    IN <<IF is_positive_response(item)
         THEN aggregate(refreshed, req.allocateOperation) ELSE refreshed,
         IF refresh THEN <<refresh_request>> ELSE <<>>>>

\* Aggregator.allocate_quota
allocate_quota(req) ==
    /\ IF q_cache = <<>>
       THEN /\ call' = [name |-> "allocate_quota", req |-> req, ret |-> None]
            /\ UNCHANGED <<q_cache, q_out, h_missed, h_further>>
       ELSE LET cache == q_cache[1]
                signature == quota_sign(req)
                got == CacheGet(cache, signature, now)
            IN IF got = <<>>
               THEN /\ Len(q_out) < MaxOut
                    /\ q_cache' = <<TTLSetItem(cache, signature, temp_item(req, now), now)>>
                    /\ q_out' = Append(q_out, req)
                    /\ call' = [name |-> "allocate_quota", req |-> req,
                                ret |-> Some(temp_response(req))]
                    /\ h_missed' = [h_missed EXCEPT ![signature] = <<req>>]
                    /\ h_further' = [h_further EXCEPT ![signature] = <<>>]
               ELSE LET res == allocate_quota_hit(got[1], req, q_opts, now)
                        c1 == Touch(cache, signature, now)
                    IN /\ Len(q_out) + Len(res[2]) <= MaxOut
                       /\ CanAggregate(got[1], req.allocateOperation)
                       /\ q_cache' = <<[c1 EXCEPT !.tracking[signature] = <<res[1]>>]>>
                       /\ q_out' = q_out \o res[2]
                       /\ call' = [name |-> "allocate_quota", req |-> req,
                                   ret |-> Some(got[1].response)]
                       /\ UNCHANGED h_missed
                       /\ h_further' =
                             IF h_further[signature] = <<>>
                             THEN h_further
                             ELSE [h_further EXCEPT
                                     ![signature][1].n = @ + 1,
                                     ![signature][1].sum = @ + req.allocateOperation.cost]
    /\ UNCHANGED <<now, q_opts, checkVars, reportVars>>

\* Aggregator.add_response of the quota aggregator.  For a signature that is
\* not cached the CachedItem constructor is handed the outer request and its
\* isinstance assertion fails.
quota_add_response(req, errors) ==
    /\ LET resp == AllocateQuotaResponse(req.allocateOperation.operationId, errors)
       IN IF q_cache = <<>>
          THEN /\ call' = [name |-> "quota_add_response", req |-> req, ret |-> None]
               /\ UNCHANGED <<q_cache, h_further>>
          ELSE LET cache == q_cache[1]
                   signature == quota_sign(req)
                   got == CacheGet(cache, signature, now)
                   c1 == Touch(cache, signature, now)
               IN IF got = <<>>
                  THEN /\ call' = [name |-> "quota_add_response", req |-> req,
                                   ret |-> Some("AssertionError")]
                       /\ UNCHANGED <<q_cache, h_further>>
                  ELSE /\ call' = [name |-> "quota_add_response", req |-> req,
                                   ret |-> None]
                       /\ q_cache' = <<TTLSetItem(c1, signature,
                                          [got[1] EXCEPT !.last_check_time = now,
                                                         !.response = resp,
                                                         !.is_in_flight = FALSE],
                                          now)>>
                       /\ h_further' =
                             [h_further EXCEPT ![signature] =
                                IF errors = <<>>
                                THEN <<[pre |-> IF got[1].op_aggregator = <<>> THEN 0
                                                ELSE got[1].op_aggregator[1].cost,
                                        n |-> 0, sum |-> 0]>>
                                ELSE <<>>]
    /\ UNCHANGED <<now, q_opts, q_out, h_missed, checkVars, reportVars>>

\* the conditions of flush without the test of is_in_flight
flush_due_in_flight_too(cache, k, options, t) ==
    LET item == cache.tracking[k][1]
    IN /\ ~should_expire(item, options, t)
       /\ item.op_aggregator # <<>>

\* the item of k is one Aggregator.flush extracts a request from
flush_due(cache, k, options, t) ==
    LET item == cache.tracking[k][1]
    IN /\ ~in_flush_all
       /\ ~should_expire(item, options, t)
       /\ ~item.is_in_flight
       /\ item.op_aggregator # <<>>

\* Aggregator.flush of the quota aggregator: c.values() walks the stored items
\* in an order the program does not fix
quota_flush ==
    /\ IF q_cache = <<>>
       THEN /\ call' = [name |-> "quota_flush", req |-> <<>>, ret |-> <<>>]
            /\ UNCHANGED <<q_cache, q_out>>
       ELSE LET c1 == Purged(TTLExpire(q_cache[1], now))
                due == {k \in Range(c1.lru) : flush_due(c1, k, q_opts, now)}
            IN \E order \in Perms(due), touched \in Perms(Range(c1.lru)) :
                  LET ex == [k \in due |->
                               quota_extract_request(
                                  [c1.tracking[k][1] EXCEPT !.is_in_flight = TRUE])]
                  IN /\ q_cache' = <<[c1 EXCEPT
                                        !.lru = touched,
                                        !.tracking = [k \in DOMAIN c1.tracking |->
                                                        IF k \in due THEN <<ex[k][1]>>
                                                        ELSE c1.tracking[k]]]>>
                     /\ call' = [name |-> "quota_flush", req |-> <<>>,
                                 ret |-> q_out \o
                                    [i \in 1..Len(order) |-> ex[order[i]][2]]]
                     /\ q_out' = <<>>
    /\ h_missed' = [k \in DOMAIN h_missed |-> <<>>]
    /\ h_further' = [k \in DOMAIN h_further |-> <<>>]
    /\ UNCHANGED <<now, q_opts, checkVars, reportVars>>

\* Aggregator.clear of the quota aggregator
quota_clear ==
    /\ IF q_cache = <<>>
       THEN UNCHANGED <<q_cache, q_out>>
       ELSE /\ q_cache' = <<Purged(CacheClear(q_cache[1]))>>
            /\ q_out' = <<>>
    /\ call' = [name |-> "quota_clear", req |-> <<>>, ret |-> None]
    /\ h_further' = [k \in DOMAIN h_further |-> <<>>]
    /\ UNCHANGED <<now, q_opts, h_missed, checkVars, reportVars>>

-----------------------------------------------------------------------------
(* endpoints_management.control.client.Client *)

\* what a call on the transport does: it answers, it raises an apitools
\* exceptions.Error, or it raises an exception of another class
TransportOutcomes == {"ok", "Error", "Exception"}

\* the requests the callers of the Client hand it
ClientCheckRequests ==
    {r \in CheckRequests :
        r.operation.operationName = "m1" /\ r.operation.importance = "LOW"}

ClientCheckResponses == {"OK"}

ClientQuotaRequests ==
    {r \in AllocateQuotaRequests : r.allocateOperation.operationId = "op1"}

ClientReportRequests ==
    {r \in ReportRequests :
        Len(r.operations) = 1 /\ r.operations[1].operationName = "m1"}

\* a method of Client returns value
Returned(name, value) == <<[name |-> name, raised |-> <<>>, value |-> value]>>

\* a method of Client raises e
Raised(name, e) == <<[name |-> name, raised |-> <<e>>, value |-> None]>>

\* one RPC put on the transport
Rpc(rpc, outcome) == [rpc |-> rpc, outcome |-> outcome]

\* sc_messages.AllocateQuotaResponse() with allocateErrors naming an error
dummy_resp_exhausted == AllocateQuotaResponse("unset", <<"RESOURCE_EXHAUSTED">>)

\* sc_messages.AllocateQuotaResponse(): no field is set
dummy_resp == AllocateQuotaResponse("unset", <<>>)

\* an except clause that sinks nothing
sunk_never(outcome) == FALSE

\* `except exceptions.Error`: only apitools errors are sunk
sunk(outcome) == outcome = "Error"

\* a start() that never finds the Client started
already_started_never == FALSE

\* a start() that also finds a stopped Client started
already_started_or_stopped == running \/ stopped

\* `if self._running` of start()
already_started == running

\* a stop() that never finds the Client stopped
already_stopped_never == FALSE

\* `if self._stopped` of stop()
already_stopped == stopped

\* Client._run_scheduler_directly
run_scheduler_directly == running /\ thread = <<>>

\* the flush_interval of the aggregator a _flush_schedule_ method flushes
flush_interval(task) ==
    CASE task = "check" -> check_flush_interval(c_cache, c_opts)
      [] task = "quota" -> quota_flush_interval(q_cache, q_opts)
      [] task = "report" -> report_flush_interval(r_cache, r_opts)

\* `flush_interval is None or flush_interval.total_seconds() < 0`
not_scheduled(task) ==
    \/ flush_interval(task) = None
    \/ flush_interval(task)[1] < 0

\* every _flush_schedule_ method entering itself with one priority
priority_same(task) == 1

\* the priority a _flush_schedule_ method enters itself with
priority(task) == IF task = "report" THEN 1 ELSE 2

\* self._scheduler.enter(flush_interval.total_seconds(), priority, method, ())
Event(task) ==
    [time |-> now + flush_interval(task)[1], priority |-> priority(task),
     action |-> task]

\* the service method a _flush_schedule_ method or a method of Client calls
RpcName(task) ==
    CASE task = "check" -> "Check"
      [] task = "quota" -> "AllocateQuota"
      [] task = "report" -> "Report"

\* the events scheduler.run() may run next: those that are due, ordered by
\* (time, priority): the earliest first and, of the events of one time, the
\* one of the higher priority first
next_events(q) ==
    {e \in q :
        /\ e.time <= now
        /\ \A o \in q :
              \/ e.time < o.time
              \/ e.time = o.time /\ e.priority >= o.priority}

\* the events self._scheduler.run() may run next
due_events == next_events(queue)

\* no aggregator is called
no_aggregator_call == UNCHANGED <<now, call, checkVars, reportVars, quotaVars>>

\* report_request.Aggregator.clear() as the Client uses it: it returns the
\* requests of everything still aggregated
report_clear_requests ==
    /\ IF r_cache = <<>>
       THEN /\ call' = [name |-> "report_clear", req |-> <<>>, ret |-> <<>>]
            /\ UNCHANGED r_cache
       ELSE \E c1 \in OutDeque(CacheClear(r_cache[1]), now) :
               LET flushed_ops == [i \in 1..Len(c1.out_deque) |->
                                     as_operation(c1.out_deque[i])]
               IN /\ call' = [name |-> "report_clear", req |-> <<>>,
                              ret |-> report_requests(flushed_ops)]
                  /\ r_cache' = <<[c1 EXCEPT !.out_deque = <<>>]>>
    /\ UNCHANGED <<now, r_opts, checkVars, quotaVars>>

\* the Report calls that send reqs on a transport of the given outcome: the
\* first call that raises another exception is the last one made
report_rpcs(reqs, outcome) ==
    IF outcome = "Exception" /\ reqs # <<>>
    THEN <<Rpc("Report", outcome)>>
    ELSE [i \in 1..Len(reqs) |-> Rpc("Report", outcome)]

\* the calling thread runs _flush_schedule_report_aggregator inside the method
\* name, with the events q0 left in the scheduler; the thread is then at
\* next_pc, or out of the method when the transport raised another exception
direct_flush_report(name, q0, next_pc, req) ==
    IF not_scheduled("report")
    THEN /\ no_aggregator_call
         /\ sent' = <<>>
         /\ queue' = q0
         /\ pc' = next_pc
         /\ pc_req' = req
         /\ ret' = IF next_pc = "idle" THEN Returned(name, None) ELSE <<>>
    ELSE /\ report_flush
         /\ \E outcome \in TransportOutcomes :
               /\ sent' = report_rpcs(call'.ret, outcome)
               /\ IF outcome = "Exception" /\ call'.ret # <<>>
                  THEN /\ queue' = q0
                       /\ pc' = "idle"
                       /\ pc_req' = <<>>
                       /\ ret' = Raised(name, "Exception")
                  ELSE /\ queue' = q0 \cup {Event("report")}
                       /\ pc' = next_pc
                       /\ pc_req' = req
                       /\ ret' = IF next_pc = "idle"
                                 THEN Returned(name, None) ELSE <<>>

\* self._lock is held by the thread of _schedule_flushes: it is inside
\* _initialize_flushing, which calls the three _flush_schedule_ methods
in_initialize_flushing(at, todo) ==
    /\ at \in {"next", "send", "cleanup"}
    /\ todo # <<>>
    /\ ~(at = "next" /\ todo = <<"run">>)

\* self._lock is held by a thread of _schedule_flushes
flusher_in_lock ==
    \/ in_initialize_flushing(f_pc, f_todo)
    \/ f_old # <<>> /\ in_initialize_flushing(f_old[1].pc, f_old[1].todo)

\* the thread of _schedule_flushes has ended: scheduler.run() returned, or
\* an exception left the thread's target
thread_ended == f_pc \in {"none", "dead"}

\* the position of the thread of _schedule_flushes
Context == [pc |-> f_pc, task |-> f_task, todo |-> f_todo, reqs |-> f_reqs,
            own |-> f_own]

\* a thread is inside scheduler.run()
in_run(at, todo) == todo = <<>> /\ at \in {"run", "send", "cleanup"}

\* a new scheduler object is created: a thread inside scheduler.run() of the
\* object created before goes on with that object and its events
own_after_new(at, todo, own) ==
    IF in_run(at, todo) /\ own = <<>> THEN <<queue>> ELSE own

\* the same for the second thread
old_after_new ==
    IF f_old = <<>>
    THEN <<>>
    ELSE <<[f_old[1] EXCEPT
              !.own = own_after_new(f_old[1].pc, f_old[1].todo, f_old[1].own)]>>

\* self._lock is held by the calling thread: it is inside stop()
caller_in_lock == pc \in {"stop_cleanup", "stop_cleanup_report"}

\* Client.start
Client_start ==
    /\ UNCHANGED lockVars
    /\ pc = "idle"
    /\ ~flusher_in_lock
    /\ IF already_started
       THEN /\ ret' = Returned("start", None)
            /\ sent' = <<>>
            /\ no_aggregator_call
            /\ UNCHANGED <<lifeVars, callerVars, flusherVars, h_stop_returned>>
       ELSE \* a thread of an earlier start() that is still alive goes on
            \* beside the new one; two threads are followed
            /\ thread_ended \/ f_old = <<>>
            /\ stopped' = FALSE
            /\ running' = TRUE
            /\ UNCHANGED <<f_task, f_todo, f_reqs, h_stop_returned>>
            /\ \E thread_starts \in BOOLEAN :
                  IF thread_starts
                  THEN /\ thread' = <<"Thread">>
                       /\ f_pc' = "init"
                       /\ f_own' = <<>>
                       /\ f_old' = IF thread_ended THEN f_old ELSE <<Context>>
                       /\ ret' = Returned("start", None)
                       /\ sent' = <<>>
                       /\ no_aggregator_call
                       /\ UNCHANGED <<scheduler, queue, callerVars>>
                  ELSE \* _initialize_flushing on the calling thread: the
                       \* check and quota methods return at
                       \* _run_scheduler_directly
                       /\ thread' = <<>>
                       /\ f_pc' = IF thread_ended THEN "none" ELSE f_pc
                       /\ f_own' = own_after_new(f_pc, f_todo, f_own)
                       /\ f_old' = old_after_new
                       /\ scheduler' = <<"scheduler">>
                       /\ direct_flush_report("start", {}, "idle", <<>>)

\* Client.stop up to the end of _flush_all_reports and `self._stopped = True`,
\* and to its end when the scheduler is not run directly
Client_stop ==
    /\ UNCHANGED lockVars
    /\ pc = "idle"
    /\ ~flusher_in_lock
    /\ IF already_stopped
       THEN /\ ret' = Returned("stop", None)
            /\ sent' = <<>>
            /\ no_aggregator_call
            /\ UNCHANGED <<lifeVars, callerVars, flusherVars, h_stop_returned>>
       ELSE /\ report_clear_requests
            /\ UNCHANGED <<thread, queue, pc_req, flusherVars>>
            /\ \E outcome \in TransportOutcomes :
                  /\ sent' = report_rpcs(call'.ret, outcome)
                  /\ IF outcome = "Exception" /\ call'.ret # <<>>
                     THEN /\ ret' = Raised("stop", "Exception")
                          /\ UNCHANGED <<running, stopped, scheduler, pc,
                                         h_stop_returned>>
                     ELSE /\ stopped' = TRUE
                          /\ IF run_scheduler_directly
                             THEN /\ pc' = "stop_cleanup"
                                  /\ ret' = <<>>
                                  /\ UNCHANGED <<running, scheduler,
                                                 h_stop_returned>>
                             ELSE /\ running' = IF scheduler # <<>> /\ queue = {}
                                                THEN FALSE ELSE running
                                  /\ scheduler' = <<>>
                                  /\ ret' = Returned("stop", None)
                                  /\ h_stop_returned' = TRUE
                                  /\ UNCHANGED pc

\* Client.stop inside _cleanup_if_stopped: check_aggregator.clear()
Client_stop_cleanup ==
    /\ UNCHANGED lockVars
    /\ pc = "stop_cleanup"
    /\ check_clear
    /\ pc' = "stop_cleanup_report"
    /\ sent' = <<>>
    /\ ret' = <<>>
    /\ UNCHANGED <<lifeVars, pc_req, flusherVars, h_stop_returned>>

\* Client.stop from report_aggregator.clear() of _cleanup_if_stopped to its end
Client_stop_end ==
    /\ UNCHANGED lockVars
    /\ pc = "stop_cleanup_report"
    /\ report_clear_requests
    /\ running' = FALSE
    /\ scheduler' = <<>>
    /\ pc' = "idle"
    /\ sent' = <<>>
    /\ ret' = Returned("stop", None)
    /\ h_stop_returned' = TRUE
    /\ UNCHANGED <<stopped, thread, queue, pc_req, flusherVars>>

\* Client.check up to the call on the transport
Client_check(req) ==
    /\ UNCHANGED lockVars
    /\ pc = "idle"
    /\ sent' = <<>>
    /\ UNCHANGED <<lifeVars, flusherVars, h_stop_returned>>
    /\ IF ~running
       THEN /\ ret' = Raised("check", "AssertionError")
            /\ no_aggregator_call
            /\ UNCHANGED callerVars
       ELSE /\ check(req)
            /\ IF call'.ret # None
               THEN /\ ret' = Returned("check", call'.ret)
                    /\ UNCHANGED callerVars
               ELSE /\ ret' = <<>>
                    /\ pc' = "check_send"
                    /\ pc_req' = <<req>>

\* Client.check from the call on the transport
Client_check_send ==
    /\ UNCHANGED lockVars
    /\ pc = "check_send"
    /\ pc' = "idle"
    /\ pc_req' = <<>>
    /\ UNCHANGED <<lifeVars, flusherVars, h_stop_returned>>
    /\ \E outcome \in TransportOutcomes :
          /\ sent' = <<Rpc("Check", outcome)>>
          /\ IF outcome = "ok"
             THEN \E resp \in ClientCheckResponses :
                     /\ check_add_response(pc_req[1], resp)
                     /\ ret' = Returned("check", Some(resp))
             ELSE /\ no_aggregator_call
                  /\ ret' = IF sunk(outcome)
                            THEN Returned("check", None)
                            ELSE Raised("check", outcome)

\* Client.allocate_quota up to the call on the transport
Client_allocate_quota(req) ==
    /\ UNCHANGED lockVars
    /\ pc = "idle"
    /\ sent' = <<>>
    /\ UNCHANGED <<lifeVars, flusherVars, h_stop_returned>>
    /\ IF ~running
       THEN /\ ret' = Raised("allocate_quota", "AssertionError")
            /\ no_aggregator_call
            /\ UNCHANGED callerVars
       ELSE /\ allocate_quota(req)
            /\ IF call'.ret # None
               THEN /\ ret' = Returned("allocate_quota", call'.ret)
                    /\ UNCHANGED callerVars
               ELSE /\ ret' = <<>>
                    /\ pc' = "quota_send"
                    /\ pc_req' = <<req>>

\* Client.allocate_quota from the call on the transport
Client_allocate_quota_send ==
    /\ UNCHANGED lockVars
    /\ pc = "quota_send"
    /\ pc' = "idle"
    /\ pc_req' = <<>>
    /\ UNCHANGED <<lifeVars, flusherVars, h_stop_returned>>
    /\ \E outcome \in TransportOutcomes :
          /\ sent' = <<Rpc("AllocateQuota", outcome)>>
          /\ IF outcome = "ok"
             THEN \E errors \in AllocateErrors :
                     /\ quota_add_response(pc_req[1], errors)
                     /\ ret' = Returned("allocate_quota",
                                  Some(AllocateQuotaResponse(
                                     pc_req[1].allocateOperation.operationId, errors)))
             ELSE IF sunk(outcome)
             THEN \* add_response(allocate_quota_req, dummy_resp)
                  /\ quota_add_response(pc_req[1], dummy_resp.allocateErrors)
                  /\ ret' = Returned("allocate_quota", Some(dummy_resp))
             ELSE /\ no_aggregator_call
                  /\ ret' = Raised("allocate_quota", outcome)

\* Client.report from report_aggregator.report(report_req) to the call on the
\* transport
report_aggregated(req) ==
    /\ report(req)
    /\ sent' = <<>>
    /\ UNCHANGED queue
    /\ IF call'.ret # None
       THEN /\ ret' = Returned("report", None)
            /\ pc' = "idle"
            /\ pc_req' = <<>>
       ELSE /\ ret' = <<>>
            /\ pc' = "report_send"
            /\ pc_req' = <<req>>

\* Client.report up to the call on the transport, or to the end of
\* scheduler.run(blocking=False) when that runs an event
Client_report(req) ==
    /\ UNCHANGED lockVars
    /\ pc = "idle"
    /\ UNCHANGED <<running, stopped, thread, scheduler, flusherVars,
                   h_stop_returned>>
    /\ IF ~running
       THEN /\ ret' = Raised("report", "AssertionError")
            /\ sent' = <<>>
            /\ no_aggregator_call
            /\ UNCHANGED <<queue, callerVars>>
       ELSE IF run_scheduler_directly /\ scheduler = <<>>
       THEN /\ ret' = Raised("report", "AttributeError")
            /\ sent' = <<>>
            /\ no_aggregator_call
            /\ UNCHANGED <<queue, callerVars>>
       ELSE IF run_scheduler_directly /\ due_events # {}
       THEN \E e \in due_events :
               direct_flush_report("report", queue \ {e}, "report_call", <<req>>)
       ELSE report_aggregated(req)

\* Client.report after scheduler.run(blocking=False) ran an event
Client_report_call ==
    /\ UNCHANGED lockVars
    /\ pc = "report_call"
    /\ report_aggregated(pc_req[1])
    /\ UNCHANGED <<running, stopped, thread, scheduler, flusherVars,
                   h_stop_returned>>

\* Client.report from the call on the transport
Client_report_send ==
    /\ UNCHANGED lockVars
    /\ pc = "report_send"
    /\ pc' = "idle"
    /\ pc_req' = <<>>
    /\ no_aggregator_call
    /\ UNCHANGED <<lifeVars, flusherVars, h_stop_returned>>
    /\ \E outcome \in TransportOutcomes :
          /\ sent' = <<Rpc("Report", outcome)>>
          /\ ret' = IF outcome = "ok" \/ sunk(outcome)
                    THEN Returned("report", None)
                    ELSE Raised("report", outcome)

\* where the thread of _schedule_flushes is once a _flush_schedule_ method
\* has returned: in _initialize_flushing or in scheduler.run()
after_task == IF f_todo = <<>> THEN "run" ELSE "next"

\* Aggregator.flush of the aggregator a _flush_schedule_ method flushes
flush(task) ==
    CASE task = "check" -> check_flush
      [] task = "quota" -> quota_flush
      [] task = "report" -> report_flush

\* the thread of _schedule_flushes enters a _flush_schedule_ method and runs
\* it up to its first call on the transport
begin_task(task) ==
    /\ f_task' = task
    /\ sent' = <<>>
    /\ ret' = <<>>
    /\ IF stopped
       THEN \* _cleanup_if_stopped: check_aggregator.clear()
            /\ check_clear
            /\ f_pc' = "cleanup"
            /\ f_reqs' = <<>>
       ELSE IF not_scheduled(task) \/ (task # "report" /\ run_scheduler_directly)
       THEN /\ no_aggregator_call
            /\ f_pc' = after_task
            /\ f_reqs' = <<>>
       ELSE /\ flush(task)
            /\ f_pc' = "send"
            /\ f_reqs' = call'.ret

\* _schedule_flushes starts: _initialize_flushing creates the scheduler
flusher_init ==
    /\ UNCHANGED lockVars
    /\ f_pc = "init"
    /\ ~caller_in_lock
    /\ ~flusher_in_lock
    /\ scheduler' = <<"scheduler">>
    /\ queue' = {}
    /\ f_todo' = <<"check", "report", "quota", "run">>
    /\ f_pc' = "next"
    /\ f_own' = <<>>
    /\ f_old' = old_after_new
    /\ sent' = <<>>
    /\ ret' = <<>>
    /\ no_aggregator_call
    /\ UNCHANGED <<running, stopped, thread, callerVars, f_task, f_reqs,
                   h_stop_returned>>

\* _initialize_flushing calls the next _flush_schedule_ method
flusher_next ==
    /\ UNCHANGED lockVars
    /\ f_pc = "next"
    /\ Head(f_todo) # "run"
    /\ begin_task(Head(f_todo))
    /\ f_todo' = Tail(f_todo)
    /\ UNCHANGED <<lifeVars, callerVars, f_own, f_old, h_stop_returned>>

\* _schedule_flushes calls self._scheduler.run(): an AttributeError when
\* stop() has set self._scheduler to None
flusher_run ==
    /\ UNCHANGED lockVars
    /\ f_pc = "next"
    /\ Head(f_todo) = "run"
    /\ f_todo' = <<>>
    /\ f_pc' = IF scheduler = <<>> THEN "dead" ELSE "run"
    /\ sent' = <<>>
    /\ ret' = <<>>
    /\ no_aggregator_call
    /\ UNCHANGED <<lifeVars, callerVars, f_task, f_reqs, f_own, f_old,
                   h_stop_returned>>

\* the events of the scheduler object the thread is running
run_queue == IF f_own = <<>> THEN queue ELSE f_own[1]

\* scheduler.run() runs the next event that is due
flusher_event ==
    /\ UNCHANGED lockVars
    /\ f_pc = "run"
    /\ \E e \in next_events(run_queue) :
          /\ IF f_own = <<>>
             THEN queue' = queue \ {e} /\ UNCHANGED f_own
             ELSE f_own' = <<f_own[1] \ {e}>> /\ UNCHANGED queue
          /\ begin_task(e.action)
    /\ UNCHANGED <<running, stopped, thread, scheduler, callerVars, f_todo,
                   f_old, h_stop_returned>>

\* scheduler.run() returns when no event is left, and the thread ends
flusher_end ==
    /\ UNCHANGED lockVars
    /\ f_pc = "run"
    /\ run_queue = {}
    /\ f_pc' = "none"
    /\ sent' = <<>>
    /\ ret' = <<>>
    /\ no_aggregator_call
    /\ UNCHANGED <<lifeVars, callerVars, f_task, f_todo, f_reqs, f_own, f_old,
                   h_stop_returned>>

\* _cleanup_if_stopped from report_aggregator.clear() to its end
flusher_cleanup ==
    /\ UNCHANGED lockVars
    /\ f_pc = "cleanup"
    /\ report_clear_requests
    /\ running' = FALSE
    /\ f_pc' = after_task
    /\ sent' = <<>>
    /\ ret' = <<>>
    /\ UNCHANGED <<stopped, thread, scheduler, queue, callerVars, f_task,
                   f_todo, f_reqs, f_own, f_old, h_stop_returned>>

\* a _flush_schedule_ method sends the next flushed request: the check and
\* quota methods sink every exception, the report method only apitools errors
flusher_send ==
    /\ UNCHANGED lockVars
    /\ f_pc = "send"
    /\ f_reqs # <<>>
    /\ f_reqs' = Tail(f_reqs)
    /\ ret' = <<>>
    /\ UNCHANGED <<lifeVars, callerVars, f_task, f_todo, f_own, f_old,
                   h_stop_returned>>
    /\ \E outcome \in TransportOutcomes :
          /\ sent' = <<Rpc(RpcName(f_task), outcome)>>
          /\ f_pc' = IF f_task = "report" /\ outcome # "ok" /\ ~sunk(outcome)
                     THEN "dead" ELSE "send"
          /\ IF outcome = "ok" /\ f_task = "check"
             THEN \E resp \in ClientCheckResponses :
                     check_add_response(Head(f_reqs), resp)
             ELSE IF outcome = "ok" /\ f_task = "quota"
             THEN \E errors \in AllocateErrors :
                     quota_add_response(Head(f_reqs), errors)
             ELSE no_aggregator_call

\* a _flush_schedule_ method enters itself in self._scheduler: an
\* AttributeError when stop() has set self._scheduler to None
flusher_enter ==
    /\ UNCHANGED lockVars
    /\ f_pc = "send"
    /\ f_reqs = <<>>
    /\ IF scheduler = <<>>
       THEN /\ f_pc' = "dead"
            /\ UNCHANGED queue
       ELSE /\ f_pc' = after_task
            /\ queue' = queue \cup {Event(f_task)}
    /\ sent' = <<>>
    /\ ret' = <<>>
    /\ no_aggregator_call
    /\ UNCHANGED <<running, stopped, thread, scheduler, callerVars, f_task,
                   f_todo, f_reqs, f_own, f_old, h_stop_returned>>

\* the processor turns from one thread of _schedule_flushes to the other; a
\* thread that has ended is followed no longer
flusher_switch ==
    /\ UNCHANGED lockVars
    /\ f_old # <<>>
    /\ f_pc' = f_old[1].pc
    /\ f_task' = f_old[1].task
    /\ f_todo' = f_old[1].todo
    /\ f_reqs' = f_old[1].reqs
    /\ f_own' = f_old[1].own
    /\ f_old' = IF thread_ended THEN <<>> ELSE <<Context>>
    /\ sent' = <<>>
    /\ ret' = <<>>
    /\ no_aggregator_call
    /\ UNCHANGED <<lifeVars, callerVars, h_stop_returned>>

-----------------------------------------------------------------------------
(* The locks of the quota aggregator: caches.LockedObject around _cache and *)
(* around _out                                                              *)

\* the threads that call the quota aggregator
LockThreads == {"t1", "t2"}

Locks == {"cache", "out"}

\* a with statement that enters the lock of _out before that of _cache
with_locks_out_first(name) ==
    IF name = "add_response" THEN <<"cache">>
    ELSE IF name = "clear" THEN <<"out", "cache">>
    ELSE <<"cache", "out">>

\* the locks the with statement of a method enters, in its order:
\* `with self._cache as c, self._out as out` in flush, clear and
\* allocate_quota, `with self._cache as c` in add_response
with_locks(name) ==
    IF name = "add_response" THEN <<"cache">> ELSE <<"cache", "out">>

\* the calls the threads make
LockCalls ==
    {[name |-> "allocate_quota", req |-> <<r>>, errors |-> <<>>,
      entered |-> 0, done |-> FALSE] : r \in ClientQuotaRequests}
    \cup {[name |-> "add_response", req |-> <<r>>, errors |-> e,
           entered |-> 0, done |-> FALSE] :
             r \in ClientQuotaRequests, e \in AllocateErrors}
    \cup {[name |-> n, req |-> <<>>, errors |-> <<>>,
           entered |-> 0, done |-> FALSE] : n \in {"flush", "clear"}}

\* no client variable but those of the locks changes
only_locks ==
    UNCHANGED <<lifeVars, callerVars, flusherVars, sent, ret, h_stop_returned>>

\* a thread calls a method of the quota aggregator, which has a cache, and
\* reaches the with statement
lock_call(t, c) ==
    /\ l_call[t] = <<>>
    /\ q_cache # <<>>
    /\ l_call' = [l_call EXCEPT ![t] = <<c>>]
    /\ UNCHANGED l_owner
    /\ no_aggregator_call
    /\ only_locks

\* LockedObject.__enter__: self._lock.acquire() of the next lock of the with
\* statement; the thread waits while another thread holds the lock
lock_enter(t) ==
    /\ l_call[t] # <<>>
    /\ ~l_call[t][1].done
    /\ l_call[t][1].entered < Len(with_locks(l_call[t][1].name))
    /\ LET lock == with_locks(l_call[t][1].name)[l_call[t][1].entered + 1]
       IN /\ l_owner[lock] \in {<<>>, <<t>>}
          /\ l_owner' = [l_owner EXCEPT ![lock] = <<t>>]
    /\ l_call' = [l_call EXCEPT ![t][1].entered = @ + 1]
    /\ no_aggregator_call
    /\ only_locks

\* the body of the with statement, run with every lock of the statement held
lock_body(t) ==
    /\ l_call[t] # <<>>
    /\ ~l_call[t][1].done
    /\ l_call[t][1].entered = Len(with_locks(l_call[t][1].name))
    /\ CASE l_call[t][1].name = "allocate_quota" ->
               allocate_quota(l_call[t][1].req[1])
         [] l_call[t][1].name = "add_response" ->
               quota_add_response(l_call[t][1].req[1], l_call[t][1].errors)
         [] l_call[t][1].name = "flush" -> quota_flush
         [] l_call[t][1].name = "clear" -> quota_clear
    /\ l_call' = [l_call EXCEPT ![t][1].done = TRUE]
    /\ UNCHANGED l_owner
    /\ only_locks

\* LockedObject.__exit__: self._lock.release(), the lock entered last first;
\* the method returns once the first lock is released
lock_exit(t) ==
    /\ l_call[t] # <<>>
    /\ l_call[t][1].done
    /\ LET lock == with_locks(l_call[t][1].name)[l_call[t][1].entered]
       IN l_owner' = [l_owner EXCEPT ![lock] = <<>>]
    /\ l_call' = [l_call EXCEPT
                    ![t] = IF l_call[t][1].entered = 1
                           THEN <<>>
                           ELSE <<[l_call[t][1] EXCEPT !.entered = @ - 1]>>]
    /\ no_aggregator_call
    /\ only_locks

-----------------------------------------------------------------------------
(* Specifications *)

NoCall == [name |-> "init", req |-> <<>>, ret |-> None]

\* a caching check aggregator: flush_interval 1, expiration 2 (the tests' setUp)
CheckOptionChoices ==
    {CheckAggregationOptions(1, 1, 2)}

\* a caching report aggregator: flush_interval 1 (the tests' setUp)
ReportOptionChoices ==
    {ReportAggregationOptions(2, 1)}

\* a caching quota aggregator: flush_interval 1, expiration 2 (the tests' setUp)
QuotaOptionChoices ==
    {QuotaOptions(1, 1, 2)}

QuotaSigs == {quota_sign(r) : r \in AllocateQuotaRequests}

ReportSigs == {sign_operation(op) : op \in Operations}

\* the three aggregators as their constructors leave them
InitState(copts, ropts, qopts) ==
    /\ now = 0
    /\ c_opts \in copts
    /\ c_cache = create(Sigs, c_opts)
    /\ h_added = [k \in Sigs |-> <<>>]
    /\ h_hit = [k \in Sigs |-> FALSE]
    /\ r_opts \in ropts
    /\ r_cache = create(ReportSigs, r_opts)
    /\ q_opts \in qopts
    /\ q_cache = quota_create(QuotaSigs, q_opts)
    /\ q_out = <<>>
    /\ h_missed = [k \in QuotaSigs |-> <<>>]
    /\ h_further = [k \in QuotaSigs |-> <<>>]
    /\ running = FALSE
    /\ stopped = FALSE
    /\ thread = <<>>
    /\ scheduler = <<>>
    /\ queue = {}
    /\ pc = "idle"
    /\ pc_req = <<>>
    /\ f_pc = "none"
    /\ f_task = "none"
    /\ f_todo = <<>>
    /\ f_reqs = <<>>
    /\ f_own = <<>>
    /\ f_old = <<>>
    /\ sent = <<>>
    /\ ret = <<>>
    /\ h_stop_returned = FALSE
    /\ l_call = [t \in LockThreads |-> <<>>]
    /\ l_owner = [l \in Locks |-> <<>>]

\* the same, and no call has been made
InitWith(copts, ropts, qopts) ==
    /\ call = NoCall
    /\ InitState(copts, ropts, qopts)

InitCheck == InitWith(CheckOptionChoices, ReportOptionChoices, QuotaOptionChoices)

NextCheck ==
    \/ Tick
    \/ \E req \in CheckRequests : check(req) /\ UNCHANGED clientVars
    \/ \E req \in CheckRequests, resp \in CheckResponses : check_add_response(req, resp) /\ UNCHANGED clientVars
    \/ check_flush /\ UNCHANGED clientVars
    \/ check_clear /\ UNCHANGED clientVars

SpecCheck == InitCheck /\ [][NextCheck]_vars

InitReport == InitWith(CheckOptionChoices, ReportOptionChoices, QuotaOptionChoices)

NextReport ==
    \/ Tick
    \/ \E req \in ReportRequests : report(req) /\ UNCHANGED clientVars
    \/ report_flush /\ UNCHANGED clientVars
    \/ report_clear /\ UNCHANGED clientVars

SpecReport == InitReport /\ [][NextReport]_vars

InitQuota == InitWith(CheckOptionChoices, ReportOptionChoices, QuotaOptionChoices)

NextQuota ==
    \/ Tick
    \/ \E req \in AllocateQuotaRequests : allocate_quota(req) /\ UNCHANGED clientVars
    \/ \E req \in AllocateQuotaRequests, errors \in AllocateErrors :
          quota_add_response(req, errors) /\ UNCHANGED clientVars
    \/ quota_flush /\ UNCHANGED clientVars
    \/ quota_clear /\ UNCHANGED clientVars

SpecQuota == InitQuota /\ [][NextQuota]_vars

\* allocate_quota calls for one method, consumer and metric with the int64
\* costs 2, 3 and 5, and flushes, with no add_response
MergeCosts == {2, 3, 5}

MergeRequests ==
    [serviceName : {ServiceName},
     allocateOperation :
        [methodName : {"m1"}, consumerId : ConsumerIds, operationId : {"op1"},
         quotaMode : {"BEST_EFFORT"}, cost : MergeCosts]]

InitQuotaMerge == InitWith(CheckOptionChoices, ReportOptionChoices, QuotaOptionChoices)

NextQuotaMerge ==
    \/ Tick
    \/ \E req \in MergeRequests : allocate_quota(req) /\ UNCHANGED clientVars
    \/ quota_flush /\ UNCHANGED clientVars

SpecQuotaMerge == InitQuotaMerge /\ [][NextQuotaMerge]_vars

\* the three aggregators with caching disabled: num_entries = -1 (the tests'
\* TestAggregatorThatCannotCache)
InitNoCache ==
    InitWith({CheckAggregationOptions(-1, 1, 2)},
             {ReportAggregationOptions(-1, 1)},
             {QuotaOptions(-1, 1, 2)})

NextNoCache ==
    \/ Tick
    \/ \E req \in CheckRequests : check(req) /\ UNCHANGED clientVars
    \/ \E req \in CheckRequests, resp \in CheckResponses : check_add_response(req, resp) /\ UNCHANGED clientVars
    \/ check_flush /\ UNCHANGED clientVars
    \/ check_clear /\ UNCHANGED clientVars
    \/ \E req \in ReportRequests : report(req) /\ UNCHANGED clientVars
    \/ report_flush /\ UNCHANGED clientVars
    \/ report_clear /\ UNCHANGED clientVars
    \/ \E req \in AllocateQuotaRequests : allocate_quota(req) /\ UNCHANGED clientVars
    \/ \E req \in AllocateQuotaRequests, errors \in AllocateErrors :
          quota_add_response(req, errors) /\ UNCHANGED clientVars
    \/ quota_flush /\ UNCHANGED clientVars
    \/ quota_clear /\ UNCHANGED clientVars

SpecNoCache == InitNoCache /\ [][NextNoCache]_vars

\* the options of an aggregator that does not cache: num_entries = -1
NoCheckCache == {CheckAggregationOptions(-1, 1, 2)}

NoReportCache == {ReportAggregationOptions(-1, 1)}

NoQuotaCache == {QuotaOptions(-1, 1, 2)}

\* a Client as its constructor leaves it: no aggregator caches, or the check
\* aggregator does, or the report aggregator does
InitClient ==
    \/ InitWith(NoCheckCache, NoReportCache, NoQuotaCache)
    \/ InitWith(CheckOptionChoices, NoReportCache, NoQuotaCache)
    \/ InitWith(NoCheckCache, ReportOptionChoices, NoQuotaCache)

NextClient ==
    \/ Tick
    \/ (already_started \/ thread_ended) /\ Client_start
    \/ Client_stop
    \/ Client_stop_cleanup
    \/ Client_stop_end
    \/ \E req \in ClientCheckRequests : Client_check(req)
    \/ Client_check_send
    \/ \E req \in ClientQuotaRequests : Client_allocate_quota(req)
    \/ Client_allocate_quota_send
    \/ \E req \in ClientReportRequests : Client_report(req)
    \/ Client_report_call
    \/ Client_report_send
    \/ flusher_init
    \/ flusher_next
    \/ flusher_run
    \/ flusher_event
    \/ flusher_end
    \/ flusher_cleanup
    \/ flusher_send
    \/ flusher_enter

SpecClient == InitClient /\ [][NextClient]_vars

\* a Client whose quota aggregator caches or does not, that is started and
\* asked to allocate quota, and is not stopped
InitClientQuota ==
    InitWith(NoCheckCache, NoReportCache, QuotaOptionChoices \cup NoQuotaCache)

NextClientQuota ==
    \/ Tick
    \/ (already_started \/ thread_ended) /\ Client_start
    \/ \E req \in ClientQuotaRequests : Client_allocate_quota(req)
    \/ Client_allocate_quota_send
    \/ flusher_init
    \/ flusher_next
    \/ flusher_run
    \/ flusher_event
    \/ flusher_end
    \/ flusher_send
    \/ flusher_enter

SpecClientQuota == InitClientQuota /\ [][NextClientQuota]_vars

\* the most aggregators the out_deque of a report aggregator holds at a flush
MaxFlushed == 2001

\* an aggregator of that out_deque, told from the others by the number n of
\* operations merged into it
FlushedAggregator(n) ==
    [op |-> [operationName |-> "m1", consumerId |-> "testConsumerID",
             importance |-> "LOW", operationId |-> "op"],
     n |-> n]

\* flushed_ops of Aggregator.flush for an out_deque of n aggregators
flushed_ops_of(n) == [i \in 1..n |-> as_operation(FlushedAggregator(i))]

\* a flush is about to pack the operations of an out_deque of any length
InitBatch ==
    /\ \E n \in 0..MaxFlushed :
          call = [name |-> "flushed_ops", req |-> flushed_ops_of(n), ret |-> None]
    /\ InitState(CheckOptionChoices, ReportOptionChoices, QuotaOptionChoices)

\* the loop of Aggregator.flush over flushed_ops
flush_batches ==
    /\ call.name = "flushed_ops"
    /\ call' = [name |-> "report_requests", req |-> call.req,
                ret |-> report_requests(call.req)]
    /\ UNCHANGED <<now, checkVars, reportVars, quotaVars, clientVars>>

NextBatch == flush_batches

SpecBatch == InitBatch /\ [][NextBatch]_vars

-----------------------------------------------------------------------------
(* operation.Aggregator with its timestamps, log entries and metric values *)

\* the times of the operations: NoTime for a startTime or endTime that is
\* not set, which is below every time that is set
NoTime == 0

MaxStamp == 2

\* the operations added to an aggregator after its initial one
MaxAdds == 2

\* timestamp.compare
timestamp_compare(a, b) == IF a < b THEN -1 ELSE IF a > b THEN 1 ELSE 0

MetricKinds == {"GAUGE", "DELTA", "CUMULATIVE"}

\* Aggregator.DEFAULT_KIND
DEFAULT_KIND == "DELTA"

MetricNames == {"some_floats", "other_floats"}

\* the kinds given to an aggregator: some_floats is not a DELTA metric and
\* other_floats is not named
KindChoices == {[n \in {"some_floats"} |-> k] : k \in {"GAUGE", "CUMULATIVE"}}

\* self._kinds.get(name, self.DEFAULT_KIND)
kind_of(kinds, name) == IF name \in DOMAIN kinds THEN kinds[name] ELSE DEFAULT_KIND

\* the labels of the metric values
MetricLabels == {{<<"key1", "value1">>}, {<<"key1", "value2">>}}

\* sc_messages.MetricValue with an int64Value
MetricValues ==
    [labels : MetricLabels, int64Value : {1, 2},
     startTime : {NoTime}, endTime : 1..MaxStamp]

\* metric_value.sign: the digest is fed the labels (and the currency code of
\* a moneyValue), neither the value nor the times
metric_value_sign(mv) == mv.labels

MetricSigs == {metric_value_sign(mv) : mv \in MetricValues}

\* sc_messages.Operation: operations that differ in their times, operations
\* that carry a log entry and operations that carry one metric value
OperationMessages ==
    [startTime : NoTime..MaxStamp, endTime : NoTime..MaxStamp,
     logEntries : {<<>>}, metricValueSets : {<<>>}]
    \cup [startTime : {NoTime}, endTime : {NoTime},
          logEntries : {<<"initial">>, <<"agg1">>}, metricValueSets : {<<>>}]
    \cup [startTime : {1}, endTime : {MaxStamp}, logEntries : {<<>>},
          metricValueSets : {<<[metricName |-> n, metricValues |-> <<mv>>]>> :
                                n \in MetricNames, mv \in MetricValues}]

\* metric_value._merge_delta_timestamps: the times of latest after it
merge_delta_timestamps(prior, latest) ==
    [latest EXCEPT
       !.startTime = IF /\ prior.startTime # NoTime
                        /\ (\/ latest.startTime = NoTime
                            \/ timestamp_compare(prior.startTime, latest.startTime) = -1)
                     THEN prior.startTime ELSE @,
       !.endTime = IF /\ prior.endTime # NoTime
                      /\ (\/ latest.endTime = NoTime
                          \/ timestamp_compare(latest.endTime, prior.endTime) = -1)
                   THEN prior.endTime ELSE @]

\* metric_value._combine_delta_values for int64Value
combine_delta_values(prior, latest) == prior + latest

\* metric_value._merge_delta_metric: latest with the times and the sum set
merge_delta_metric(prior, latest) ==
    [merge_delta_timestamps(prior, latest) EXCEPT
       !.int64Value = combine_delta_values(prior.int64Value, latest.int64Value)]

\* metric_value._merge_cumulative_or_gauge_metrics
merge_cumulative_or_gauge_metrics(prior, latest) ==
    IF timestamp_compare(prior.endTime, latest.endTime) = -1 THEN latest ELSE prior

\* metric_value.merge: the value it returns
metric_value_merge(metric_kind, prior, latest) ==
    IF metric_kind = "DELTA"
    THEN merge_delta_metric(prior, latest)
    ELSE merge_cumulative_or_gauge_metrics(prior, latest)

\* what the object latest holds once metric_value.merge has returned:
\* _merge_delta_metric sets the times and the value of latest in place,
\* _merge_cumulative_or_gauge_metrics changes neither of its arguments
latest_after_merge(metric_kind, prior, latest) ==
    IF metric_kind = "DELTA" THEN merge_delta_metric(prior, latest) ELSE latest

\* the body of the inner loop of _merge_metric_values for one metric value:
\* the value metric_value.merge returns is not used, by_signature[signature]
\* is set to mv
merge_one_value(kinds, by_name, name, mv) ==
    LET kind == kind_of(kinds, name)
        signature == metric_value_sign(mv)
        prior == by_name[name][signature]
        held == IF prior # <<>> THEN latest_after_merge(kind, prior[1], mv) ELSE mv
    IN [by_name EXCEPT ![name][signature] = <<held>>]

\* the inner loop of _merge_metric_values over the values of one value set
RECURSIVE merge_values(_, _, _, _)
merge_values(kinds, by_name, name, mvs) ==
    IF mvs = <<>>
    THEN by_name
    ELSE merge_values(kinds, merge_one_value(kinds, by_name, name, Head(mvs)),
                      name, Tail(mvs))

\* Aggregator._merge_metric_values: _metric_values_by_name_then_sign after it
RECURSIVE merge_metric_values(_, _, _)
merge_metric_values(kinds, by_name, value_sets) ==
    IF value_sets = <<>>
    THEN by_name
    ELSE merge_metric_values(
             kinds,
             merge_values(kinds, by_name, Head(value_sets).metricName,
                          Head(value_sets).metricValues),
             Tail(value_sets))

\* _merge_timestamps with the end time never moved
merge_timestamps_keep_end(op, other_op) ==
    [op EXCEPT
       !.startTime = IF /\ other_op.startTime # NoTime
                        /\ (\/ op.startTime = NoTime
                            \/ timestamp_compare(other_op.startTime, op.startTime) = -1)
                     THEN other_op.startTime ELSE @]

\* Aggregator._merge_timestamps: self._op after it
merge_timestamps(op, other_op) ==
    [op EXCEPT
       !.startTime = IF /\ other_op.startTime # NoTime
                        /\ (\/ op.startTime = NoTime
                            \/ timestamp_compare(other_op.startTime, op.startTime) = -1)
                     THEN other_op.startTime ELSE @,
       !.endTime = IF /\ other_op.endTime # NoTime
                      /\ (\/ op.endTime = NoTime
                          \/ timestamp_compare(op.endTime, other_op.endTime) = -1)
                   THEN other_op.endTime ELSE @]

\* operation.Aggregator.__init__: the metric values of a copy of initial_op
\* are merged into an empty _metric_values_by_name_then_sign, the copy is
\* kept without them
Aggregator_init(initial_op, kinds) ==
    [kinds |-> kinds,
     metric_values_by_name_then_sign |->
         merge_metric_values(kinds,
                             [n \in MetricNames |-> [s \in MetricSigs |-> <<>>]],
                             initial_op.metricValueSets),
     op |-> [initial_op EXCEPT !.metricValueSets = <<>>]]

\* operation.Aggregator.add: the aggregator after it
Aggregator_add(agg, other_op) ==
    [agg EXCEPT
       !.op = merge_timestamps(
                  [agg.op EXCEPT !.logEntries = @ \o other_op.logEntries],
                  other_op),
       !.metric_values_by_name_then_sign =
           merge_metric_values(agg.kinds, @, other_op.metricValueSets)]

\* an aggregator has been made of an initial operation
InitOperation ==
    /\ \E initial_op \in OperationMessages, kinds \in KindChoices :
          call = [name |-> "Aggregator", req |-> initial_op,
                  ret |-> Aggregator_init(initial_op, kinds), adds |-> 0]
    /\ InitState(CheckOptionChoices, ReportOptionChoices, QuotaOptionChoices)

\* a call of add on the aggregator; call.ret is the aggregator after the call
add(other_op) ==
    /\ call.name \in {"Aggregator", "add"}
    /\ call.adds < MaxAdds
    /\ call' = [name |-> "add", req |-> other_op,
                ret |-> Aggregator_add(call.ret, other_op), adds |-> call.adds + 1]
    /\ UNCHANGED <<now, checkVars, reportVars, quotaVars, clientVars>>

NextOperation == \E other_op \in OperationMessages : add(other_op)

SpecOperation == InitOperation /\ [][NextOperation]_vars

-----------------------------------------------------------------------------
(* google.scc.money *)

\* the width of the units of a Money in bits, scaled down from 64
MoneyBits == 4

\* the nanos that make one unit, scaled down from 10^9
NanosPerUnit == 3

INT64_MAX == 2 ^ (MoneyBits - 1) - 1

INT64_MIN == - INT64_MAX - 1

BILLION == NanosPerUnit

MAX_NANOS == BILLION - 1

CurrencyCodes == {"JPY", "USD"}

\* messages.Money
Money(units, nanos, currencyCode) ==
    [units |-> units, nanos |-> nanos, currencyCode |-> currencyCode]

\* the Money instances given to add: units of the int64 range, nanos within
\* MAX_NANOS of zero, of either sign
Moneys ==
    [units : INT64_MIN..INT64_MAX, nanos : (- MAX_NANOS)..MAX_NANOS,
     currencyCode : CurrencyCodes]

abs(n) == IF n < 0 THEN - n ELSE n

\* money.check_valid: TRUE when it returns, FALSE when it raises ValueError
\* (the currency codes are all 3 letters long)
check_valid(money) ==
    /\ ~ ((money.units > 0 /\ money.nanos < 0) \/ (money.units < 0 /\ money.nanos > 0))
    /\ ~ (abs(money.nanos) > MAX_NANOS)

\* money._sum_nanos: <<carry, the_sum>>
sum_nanos(a, b) ==
    LET the_sum == a.nanos + b.nanos
    IN IF the_sum > BILLION THEN <<1, the_sum - BILLION>>
       ELSE IF the_sum <= - BILLION THEN <<-1, the_sum + BILLION>>
       ELSE <<0, the_sum>>

\* money._sign_of
sign_of(money) ==
    IF money.units > 0 THEN 1
    ELSE IF money.units < 0 THEN -1
    ELSE IF money.nanos > 0 THEN 1
    ELSE IF money.nanos < 0 THEN -1
    ELSE 0

\* an overflow test that never finds one
overflow_never(sign_a, sign_b, units_sum_no_carry, units_sum) == FALSE

\* the test of add for a positive overflow
positive_overflow(sign_a, sign_b, units_sum_no_carry, units_sum) ==
    sign_a > 0 /\ sign_b > 0 /\ units_sum >= INT64_MAX

\* the test of add for a negative overflow
negative_overflow(sign_a, sign_b, units_sum_no_carry, units_sum) ==
    /\ sign_a < 0
    /\ sign_b < 0
    /\ (units_sum_no_carry <= - INT64_MAX \/ units_sum <= - INT64_MAX)

\* money.add (Python integers do not wrap: the sums are the exact ones)
money_add(a, b, allow_overflow) ==
    IF a.currencyCode # b.currencyCode
    THEN Raised("add", "ValueError")
    ELSE
    LET nano_carry == sum_nanos(a, b)[1]
        nanos_sum0 == sum_nanos(a, b)[2]
        units_sum_no_carry == a.units + b.units
        units_sum0 == units_sum_no_carry + nano_carry
        units_sum == IF units_sum0 > 0 /\ nanos_sum0 < 0 THEN units_sum0 - 1
                     ELSE IF units_sum0 < 0 /\ nanos_sum0 > 0 THEN units_sum0 + 1
                     ELSE units_sum0
        nanos_sum == IF units_sum0 > 0 /\ nanos_sum0 < 0 THEN nanos_sum0 + BILLION
                     ELSE IF units_sum0 < 0 /\ nanos_sum0 > 0 THEN nanos_sum0 - BILLION
                     ELSE nanos_sum0
        sign_a == sign_of(a)
        sign_b == sign_of(b)
    IN IF positive_overflow(sign_a, sign_b, units_sum_no_carry, units_sum)
       THEN IF ~ allow_overflow
            THEN Raised("add", "OverflowError")
            ELSE Returned("add", Money(INT64_MAX, MAX_NANOS, a.currencyCode))
       ELSE IF negative_overflow(sign_a, sign_b, units_sum_no_carry, units_sum)
       THEN IF ~ allow_overflow
            THEN Raised("add", "OverflowError")
            ELSE Returned("add", Money(INT64_MIN, - MAX_NANOS, a.currencyCode))
       ELSE Returned("add", Money(units_sum, nanos_sum, a.currencyCode))

\* two Money instances are about to be added
InitMoney ==
    /\ \E a \in Moneys, b \in Moneys, allow_overflow \in BOOLEAN :
          /\ a.currencyCode = "JPY"
          /\ call = [name |-> "money", req |-> <<a, b, allow_overflow>>, ret |-> None]
    /\ InitState(CheckOptionChoices, ReportOptionChoices, QuotaOptionChoices)

\* the call money.add(a, b, allow_overflow)
add_money ==
    /\ call.name = "money"
    /\ call' = [name |-> "money.add", req |-> call.req,
                ret |-> money_add(call.req[1], call.req[2], call.req[3])]
    /\ UNCHANGED <<now, checkVars, reportVars, quotaVars, clientVars>>

NextMoney == add_money

SpecMoney == InitMoney /\ [][NextMoney]_vars

-----------------------------------------------------------------------------
(* check_request.sign, quota_request.sign and metric_value.update_hash: what
   the md5 digest is fed, as the sequence of the strings given to update *)

\* the '\x00' fed between the fields
NUL == "\\x00"

\* the label keys in their sorted order
LabelKeys == <<"key1", "key2">>

\* labels, a dict written as its items in insertion order
LabelDicts ==
    {<<>>,
     <<<<"key1", "value1">>>>,
     <<<<"key1", "value2">>>>,
     <<<<"key1", "value1">>, <<"key2", "value2">>>>,
     <<<<"key2", "value2">>, <<"key1", "value1">>>>}

\* the items of a dict sorted by key
RECURSIVE sorted_items(_, _)
sorted_items(a_dict, keys) ==
    IF keys = <<>>
    THEN <<>>
    ELSE SelectSeq(a_dict, LAMBDA item : item[1] = Head(keys))
         \o sorted_items(a_dict, Tail(keys))

\* signing.add_dict_to_hash: for each (k, v) sorted by k: k, 0x00, v, 0x00
RECURSIVE add_items_to_hash(_, _)
add_items_to_hash(a_hash, items) ==
    IF items = <<>>
    THEN a_hash
    ELSE add_items_to_hash(a_hash \o <<Head(items)[1], NUL, Head(items)[2], NUL>>,
                           Tail(items))

add_dict_to_hash(a_hash, a_dict) ==
    add_items_to_hash(a_hash, sorted_items(a_dict, LabelKeys))

\* sc_messages.MetricValue for the signatures: its labels and its value, an
\* int64Value or a moneyValue
SignedMetricValues ==
    [labels : {<<>>}, int64Value : {<<1>>, <<2>>}, moneyValue : {<<>>}]
    \cup [labels : {<<<<"key1", "value1">>>>}, int64Value : {<<1>>}, moneyValue : {<<>>}]
    \cup [labels : {<<>>}, int64Value : {<<>>},
          moneyValue : {<<[currencyCode |-> c, units |-> 1]>> : c \in {"USD", "EUR"}}]

\* metric_value.update_hash
update_hash(a_hash, mv) ==
    LET h1 == IF mv.labels # <<>> THEN add_dict_to_hash(a_hash, mv.labels) ELSE a_hash
    IN IF mv.moneyValue # <<>>
       THEN h1 \o <<NUL, mv.moneyValue[1].currencyCode>>
       ELSE h1

\* the loop of sign over the metric values of one value set
RECURSIVE update_hash_all(_, _)
update_hash_all(a_hash, mvs) ==
    IF mvs = <<>>
    THEN a_hash
    ELSE update_hash_all(update_hash(a_hash, Head(mvs)), Tail(mvs))

\* the loop of sign over the value sets
RECURSIVE add_value_sets(_, _)
add_value_sets(a_hash, value_sets) ==
    IF value_sets = <<>>
    THEN a_hash
    ELSE add_value_sets(
             update_hash_all(a_hash \o <<NUL, Head(value_sets).metricName>>,
                             Head(value_sets).metricValues),
             Tail(value_sets))

\* check_request.sign: what md5 has been fed when digest() is called
check_sign_fed(op) ==
    LET h0 == <<op.operationName, NUL, op.consumerId>>
        h1 == IF op.labels # <<>> THEN add_dict_to_hash(h0, op.labels) ELSE h0
        h2 == add_value_sets(h1, op.metricValueSets)
        h3 == IF op.quotaProperties # <<>>
              THEN h2 \o <<NUL, op.quotaProperties[1]>>
              ELSE h2 \o <<NUL>>
    IN h3 \o <<NUL>>

\* quota_request.sign: the same over methodName, consumerId, labels and
\* quotaMetrics, with one trailing '\x00'
quota_sign_fed(op) ==
    LET h0 == <<op.operationName, NUL, op.consumerId>>
        h1 == IF op.labels # <<>> THEN add_dict_to_hash(h0, op.labels) ELSE h0
        h2 == add_value_sets(h1, op.metricValueSets)
    IN h2 \o <<NUL>>

\* the value sets of the signed operations: up to two sets of one value each;
\* a metric may bear the name of a currency
SignedValueSets ==
    LET sets == [metricName : {"some_floats", "USD"},
                 metricValues : {<<mv>> : mv \in SignedMetricValues}]
    IN {<<>>} \cup {<<s>> : s \in sets} \cup {<<s, t>> : s \in sets, t \in sets}

\* the operations signed: operations without metrics that differ in what
\* identifies them, in their operationId and in their times, and operations
\* that differ in their metrics (operationName stands for the methodName and
\* metricValueSets for the quotaMetrics of a QuotaOperation)
SignedOperations ==
    [operationName : {"m1", "m2"}, consumerId : {"testConsumerID"},
     labels : LabelDicts, metricValueSets : {<<>>},
     quotaProperties : {<<>>, <<"quotaMode: ACQUIRE">>},
     operationId : {"op1", "op2"}, startTime : {1, 2}]
    \cup [operationName : {"m1"}, consumerId : {"otherConsumerID"},
          labels : {<<>>}, metricValueSets : {<<>>}, quotaProperties : {<<>>},
          operationId : {"op1"}, startTime : {1}]
    \cup [operationName : {"m1"}, consumerId : {"testConsumerID"},
          labels : {<<>>}, metricValueSets : SignedValueSets,
          quotaProperties : {<<>>}, operationId : {"op1"}, startTime : {1}]

\* two requests are about to be signed
InitSign ==
    /\ \E op1 \in SignedOperations, op2 \in SignedOperations :
          call = [name |-> "requests", req |-> <<op1, op2>>, ret |-> None]
    /\ InitState(CheckOptionChoices, ReportOptionChoices, QuotaOptionChoices)

\* check_request.sign of the two, as check requests
sign_checks ==
    /\ call.name = "requests"
    /\ call' = [name |-> "check_request.sign", req |-> call.req,
                ret |-> <<check_sign_fed(call.req[1]), check_sign_fed(call.req[2])>>]
    /\ UNCHANGED <<now, checkVars, reportVars, quotaVars, clientVars>>

\* quota_request.sign of the two, as allocate quota requests
sign_quotas ==
    /\ call.name = "requests"
    /\ \A i \in 1..2 : call.req[i].quotaProperties = <<>>
    /\ call' = [name |-> "quota_request.sign", req |-> call.req,
                ret |-> <<quota_sign_fed(call.req[1]), quota_sign_fed(call.req[2])>>]
    /\ UNCHANGED <<now, checkVars, reportVars, quotaVars, clientVars>>

NextSign == sign_checks \/ sign_quotas

SpecSign == InitSign /\ [][NextSign]_vars

-----------------------------------------------------------------------------
(* the requests the aggregators reject: Aggregator.check, allocate_quota and
   report from their first statement *)

\* the request messages as the callers build them: their class, serviceName
\* and inner request, <<>> where a field is None
RequestMessage(type, serviceName, inner) ==
    [type |-> type, serviceName |-> serviceName, inner |-> inner]

\* values that are no request message: object() and None
NotRequests == {RequestMessage(t, "", <<>>) : t \in {"object", "NoneType"}}

\* a service name that is not the aggregator's
OtherServiceName == "testServiceName-will-not-match"

\* what a caller may give Aggregator.check
CheckMessages ==
    {RequestMessage("ServicecontrolServicesCheckRequest", s, <<[operation |-> <<op>>]>>) :
        s \in {ServiceName, OtherServiceName}, op \in Operations}
    \cup {RequestMessage("ServicecontrolServicesCheckRequest", ServiceName, inner) :
             inner \in {<<>>, <<[operation |-> <<>>]>>}}
    \cup NotRequests

\* what a caller may give Aggregator.allocate_quota
AllocateQuotaMessages ==
    {RequestMessage("ServicecontrolServicesAllocateQuotaRequest", s,
                    <<[operation |-> <<op>>]>>) :
        s \in {ServiceName, OtherServiceName}, op \in QuotaOperations}
    \cup {RequestMessage("ServicecontrolServicesAllocateQuotaRequest", ServiceName, inner) :
             inner \in {<<>>, <<[operation |-> <<>>]>>}}
    \cup NotRequests

\* what a caller may give Aggregator.report
ReportMessages ==
    {RequestMessage("ServicecontrolServicesReportRequest", s,
                    <<[operations |-> <<op>>]>>) :
        s \in {ServiceName, OtherServiceName}, op \in Operations}
    \cup {RequestMessage("ServicecontrolServicesReportRequest", ServiceName, <<>>)}
    \cup NotRequests

\* the tests without the one of the service name
request_error_but_service_name(type, service_name, req) ==
    IF req.type # type THEN <<"ValueError">>
    ELSE IF req.inner = <<>> THEN <<"ValueError">>
    ELSE <<>>

\* the tests all three methods make once they know they have a cache:
\* isinstance, serviceName, inner request; <<>> when they pass
request_error(type, service_name, req) ==
    IF req.type # type THEN <<"ValueError">>
    ELSE IF req.serviceName # service_name THEN <<"ValueError">>
    ELSE IF req.inner = <<>> THEN <<"ValueError">>
    ELSE <<>>

\* the test of check and allocate_quota for the operation of the inner request
operation_error(req) ==
    IF req.inner[1].operation = <<>> THEN <<"ValueError">> ELSE <<>>

\* a method raises: nothing but the record of the call changes
raises(name, req, e) ==
    /\ call' = [name |-> name, req |-> req, ret |-> Raised(name, e)]
    /\ UNCHANGED <<now, checkVars, reportVars, quotaVars>>

\* Aggregator.check from its first statement
Aggregator_check(req) ==
    LET e1 == request_error("ServicecontrolServicesCheckRequest", ServiceName, req)
    IN IF c_cache = <<>>
       THEN /\ call' = [name |-> "check", req |-> req, ret |-> None]
            /\ UNCHANGED <<now, checkVars, reportVars, quotaVars>>
       ELSE IF e1 # <<>> THEN raises("check", req, e1[1])
       ELSE IF operation_error(req) # <<>>
       THEN raises("check", req, operation_error(req)[1])
       ELSE check([serviceName |-> req.serviceName,
                   operation |-> req.inner[1].operation[1]])

\* Aggregator.allocate_quota from its first statement
Aggregator_allocate_quota(req) ==
    LET e1 == request_error("ServicecontrolServicesAllocateQuotaRequest", ServiceName, req)
    IN IF q_cache = <<>>
       THEN /\ call' = [name |-> "allocate_quota", req |-> req, ret |-> None]
            /\ UNCHANGED <<now, checkVars, reportVars, quotaVars>>
       ELSE IF e1 # <<>> THEN raises("allocate_quota", req, e1[1])
       ELSE IF operation_error(req) # <<>>
       THEN raises("allocate_quota", req, operation_error(req)[1])
       ELSE allocate_quota([serviceName |-> req.serviceName,
                            allocateOperation |-> req.inner[1].operation[1]])

\* Aggregator.report from its first statement
Aggregator_report(req) ==
    LET e1 == request_error("ServicecontrolServicesReportRequest", ServiceName, req)
    IN IF r_cache = <<>>
       THEN /\ call' = [name |-> "report", req |-> req, ret |-> None]
            /\ UNCHANGED <<now, checkVars, reportVars, quotaVars>>
       ELSE IF e1 # <<>> THEN raises("report", req, e1[1])
       ELSE report([serviceName |-> req.serviceName,
                    operations |-> req.inner[1].operations])

\* one of the three aggregators caches
InitMalformed ==
    \/ InitWith(CheckOptionChoices, NoReportCache, NoQuotaCache)
    \/ InitWith(NoCheckCache, ReportOptionChoices, NoQuotaCache)
    \/ InitWith(NoCheckCache, NoReportCache, QuotaOptionChoices)

NextMalformed ==
    \/ \E req \in CheckMessages : Aggregator_check(req) /\ UNCHANGED clientVars
    \/ \E req \in CheckRequests, resp \in CheckResponses : check_add_response(req, resp) /\ UNCHANGED clientVars
    \/ \E req \in AllocateQuotaMessages : Aggregator_allocate_quota(req) /\ UNCHANGED clientVars
    \/ \E req \in ReportMessages : Aggregator_report(req) /\ UNCHANGED clientVars

SpecMalformed == InitMalformed /\ [][NextMalformed]_vars

\* a Client whose check and report aggregators both cache, with one
\* flush_interval: it is started, checks are made, and time passes
InitFlushOrder ==
    InitWith(CheckOptionChoices, ReportOptionChoices, NoQuotaCache)

NextFlushOrder ==
    \/ Tick
    \/ (already_started \/ thread_ended) /\ Client_start
    \/ \E req \in ClientCheckRequests : Client_check(req)
    \/ Client_check_send
    \/ flusher_init
    \/ flusher_next
    \/ flusher_run
    \/ flusher_event
    \/ flusher_send
    \/ flusher_enter

SpecFlushOrder == InitFlushOrder /\ [][NextFlushOrder]_vars

\* a Client whose check aggregator caches, started and stopped in any order
\* while the threads of _schedule_flushes run
InitRestart == InitWith(CheckOptionChoices, NoReportCache, NoQuotaCache)

NextRestart ==
    \/ Tick
    \/ Client_start
    \/ Client_stop
    \/ Client_stop_cleanup
    \/ Client_stop_end
    \/ \E req \in ClientCheckRequests : Client_check(req)
    \/ Client_check_send
    \/ flusher_init
    \/ flusher_next
    \/ flusher_run
    \/ flusher_event
    \/ flusher_end
    \/ flusher_cleanup
    \/ flusher_send
    \/ flusher_enter
    \/ flusher_switch

SpecRestart == InitRestart /\ [][NextRestart]_vars

\* a Client whose report aggregator caches: it is started, reports are made
\* and flushed as time passes; it is not stopped
InitFlushReport == InitWith(NoCheckCache, ReportOptionChoices, NoQuotaCache)

NextFlushReport ==
    \/ Tick
    \/ (already_started \/ thread_ended) /\ Client_start
    \/ \E req \in ClientReportRequests : Client_report(req)
    \/ Client_report_call
    \/ Client_report_send
    \/ flusher_init
    \/ flusher_next
    \/ flusher_run
    \/ flusher_event
    \/ flusher_send
    \/ flusher_enter

SpecFlushReport == InitFlushReport /\ [][NextFlushReport]_vars

\* threads call allocate_quota, add_response, flush and clear of one caching
\* quota aggregator at the same time
InitLocks == InitWith(NoCheckCache, NoReportCache, QuotaOptionChoices)

NextLocks ==
    \/ Tick
    \/ \E t \in LockThreads, c \in LockCalls : lock_call(t, c)
    \/ \E t \in LockThreads : lock_enter(t)
    \/ \E t \in LockThreads : lock_body(t)
    \/ \E t \in LockThreads : lock_exit(t)

SpecLocks == InitLocks /\ [][NextLocks]_vars

Init == InitCheck

Next == NextCheck

Spec == Init /\ [][Next]_vars

-----------------------------------------------------------------------------
(* Properties of the check aggregator *)

\* the last call was check(req) with a LOW operation on a caching aggregator
LowCheckCalled ==
    /\ call.name = "check"
    /\ c_cache # <<>>
    /\ call.req.operation.importance = "LOW"

\* the item tracked for the signature of the last call's request
CalledItem == c_cache[1].tracking[sign(call.req)][1]

\* the last call's signature is stored in the cache (not evicted, not purged)
CalledStored == c_cache[1].links[sign(call.req)] # <<>>

CalledLive == Live(c_cache[1], sign(call.req), now)

CalledAdded == h_added[sign(call.req)]

\* C1 as stated: a check made less than flush_interval after the last
\* add_response(req, r) for its signature returns r, whatever else was called
\* in between.
C1_Original ==
    LowCheckCalled =>
        (CalledAdded # <<>> /\ now < CalledAdded[1].time + c_opts.flush_interval
            => call.ret = Some(CalledAdded[1].resp))

\* C1 amended: a check made less than flush_interval after the last
\* add_response(req, r) for its signature returns r (the last response added
\* wins), as long as the entry has not been evicted from the cache by responses
\* added for other signatures (num_entries) and the cache was not cleared.
C1_CachedResponseServed ==
    (/\ LowCheckCalled
     /\ CalledAdded # <<>>
     /\ now < CalledAdded[1].time + c_opts.flush_interval
     /\ CalledStored) => call.ret = Some(CalledAdded[1].resp)

\* a check served the second of two responses added for its signature
C1_Witness ==
    /\ LowCheckCalled
    /\ CalledAdded # <<>>
    /\ now < CalledAdded[1].time + c_opts.flush_interval
    /\ CalledStored
    /\ call.ret = Some("NOT_FOUND")
    /\ now > 0

\* the step is check(req) for a LOW operation that finds a live entry
HitStep(req) ==
    /\ call'.name = "check"
    /\ call'.req = req
    /\ c_cache # <<>>
    /\ req.operation.importance = "LOW"
    /\ CacheGet(c_cache[1], sign(req), now) # <<>>

\* the step is check(req) for a LOW operation that finds no live entry
MissStep(req) ==
    /\ call'.name = "check"
    /\ call'.req = req
    /\ c_cache # <<>>
    /\ req.operation.importance = "LOW"
    /\ CacheGet(c_cache[1], sign(req), now) = <<>>

\* what a hit must do: serve the cached response while its age is below
\* flush_interval; from then on return None once and restart the age
HitServesOrRefreshes(req) ==
    LET item == CacheGet(c_cache[1], sign(req), now)[1]
        after == c_cache'[1].tracking[sign(req)][1]
    IN IF now - item.last_check_time >= c_opts.flush_interval
       THEN /\ call'.ret = None
            /\ after.last_check_time = now
            /\ after.response = item.response
       ELSE /\ call'.ret = Some(item.response)
            /\ after.last_check_time = item.last_check_time
            /\ after.response = item.response

\* C2: for a cached passing response, the check that finds its age at or above
\* flush_interval returns None and sets last_check_time to now, so the checks
\* that follow (also those of concurrent callers, serialised by the cache lock)
\* are served the cached response until the age reaches flush_interval again;
\* a check that finds the entry expired returns None.
C2_RefreshSignalledOnce ==
    [][\A req \in CheckRequests :
         /\ (HitStep(req)
             /\ Len(checkErrors(CacheGet(c_cache[1], sign(req), now)[1].response)) = 0)
               => HitServesOrRefreshes(req)
         /\ MissStep(req) => call'.ret = None]_vars

\* a check has released the refresh of a passing response that is still cached
C2_Witness ==
    /\ LowCheckCalled
    /\ CalledLive
    /\ call.ret = None
    /\ CalledItem.response = "OK"
    /\ CalledItem.is_flushing
    /\ CalledItem.last_check_time = now
    /\ CalledAdded # <<>> /\ CalledAdded[1].time < now

\* C3, the half "before last_check_time + expiration the entry is still
\* served or refreshed", with last_check_time as the item holds it (set by
\* add_response and by the check that released a refresh).
C3_Original ==
    LowCheckCalled /\ CalledStored =>
        (now < CalledItem.last_check_time + c_opts.expiration => CalledLive)

\* C3 amended: the entry is found by check up to and including the time of the
\* last add_response for its signature plus expiration, and no longer after
\* that; a received response postpones the expiry, a released refresh does not.
C3_ExpiresAfterLastResponse ==
    LowCheckCalled /\ CalledAdded # <<>> =>
        /\ now > CalledAdded[1].time + c_opts.expiration
             => ~CalledLive /\ call.ret = None
        /\ now <= CalledAdded[1].time + c_opts.expiration /\ CalledStored
             => CalledLive

\* a check finds no entry although a refresh was released less than
\* expiration ago
C3_Witness ==
    /\ LowCheckCalled
    /\ CalledStored
    /\ ~CalledLive
    /\ call.ret = None
    /\ now < CalledItem.last_check_time + c_opts.expiration
    /\ CalledAdded # <<>> /\ now > CalledAdded[1].time + c_opts.expiration

\* C4: for a cached response with checkErrors, check returns that response
\* while its age is below flush_interval; the check that finds the age at or
\* above flush_interval returns None and sets last_check_time to now, after
\* which the cached failing response is returned again.
C4_FailingResponseServed ==
    [][\A req \in CheckRequests :
         (HitStep(req)
          /\ Len(checkErrors(CacheGet(c_cache[1], sign(req), now)[1].response)) > 0)
            => HitServesOrRefreshes(req)]_vars

\* a check has released the refresh of a failing response that is still cached
C4_Witness ==
    /\ LowCheckCalled
    /\ CalledLive
    /\ call.ret = None
    /\ CalledItem.response = "NOT_FOUND"
    /\ CalledItem.last_check_time = now
    /\ CalledAdded # <<>> /\ CalledAdded[1].time < now

\* C5: check returns None for every request whose operation is not LOW, and
\* every request a flush returns carries a LOW operation.
C5_ImportantNeverCached ==
    /\ (call.name = "check" /\ call.req.operation.importance # "LOW")
         => call.ret = None
    /\ call.name = "flush"
         => \A i \in 1..Len(call.ret) : call.ret[i].operation.importance = "LOW"

\* a check of a HIGH operation returned None while a response is cached for
\* its signature
C5_Witness ==
    /\ call.name = "check"
    /\ c_cache # <<>>
    /\ call.req.operation.importance = "HIGH"
    /\ CalledLive
    /\ call.ret = None

\* the step is a flush of a caching check aggregator
FlushStep == call'.name = "flush" /\ c_cache # <<>>

\* the item the cache tracks for k holds merged operations
HoldsContent(k) ==
    /\ c_cache[1].tracking[k] # <<>>
    /\ c_cache[1].tracking[k][1].op_aggregator # <<>>

\* how many of the requests in reqs are for signature k
RequestsFor(reqs, k) == Cardinality({i \in 1..Len(reqs) : sign(reqs[i]) = k})

\* C8 as stated: a flush returns exactly one request for each entry whose
\* op_aggregator holds merged content at that moment.
C8_Original ==
    [][FlushStep =>
         \A k \in Sigs :
            RequestsFor(call'.ret, k) = IF HoldsContent(k) THEN 1 ELSE 0]_vars

\* C8 amended: a flush returns exactly one request for each entry that has
\* left the cache (expired or evicted), has not been replaced by a newer entry
\* for its signature, and whose op_aggregator holds merged content; that entry
\* is dropped by the flush, so a second flush returns nothing for it.  Entries
\* still in the cache yield no request and keep their merged content.
C8_FlushReturnsDepartedEntries ==
    [][FlushStep =>
         \A k \in Sigs :
            IF Live(c_cache[1], k, now)
            THEN /\ RequestsFor(call'.ret, k) = 0
                 /\ c_cache'[1].tracking[k] = c_cache[1].tracking[k]
            ELSE /\ RequestsFor(call'.ret, k) = IF HoldsContent(k) THEN 1 ELSE 0
                 /\ c_cache'[1].tracking[k] = <<>>]_vars

\* a flush returned the request of a departed entry and left an entry that is
\* still cached with its merged content
C8_Witness ==
    /\ call.name = "flush"
    /\ c_cache # <<>>
    /\ Len(call.ret) = 1
    /\ \E k \in Sigs :
         /\ Live(c_cache[1], k, now)
         /\ HoldsContent(k)
         /\ sign(call.ret[1]) # k

\* C9, for runs that use one signature and passing responses: an entry that no
\* check was merged into never yields a request from flush; an entry that was
\* hit yields nothing while it is unexpired and exactly one request from the
\* first flush after it has expired.
C9_Original ==
    [][FlushStep =>
         \A k \in Sigs :
            (\A j \in Sigs \ {k} : h_added[j] = <<>>) =>
               LET unexpired == Live(c_cache[1], k, now) /\ HoldsContent(k)
               IN RequestsFor(call'.ret, k) =
                     IF h_hit[k] /\ ~unexpired THEN 1 ELSE 0]_vars

-----------------------------------------------------------------------------
(* Properties of the report aggregator *)

\* the last call was report(req) on a caching report aggregator
ReportCalled == call.name = "report" /\ r_cache # <<>>

\* the operations of the requests the last report flush returned
FlushedOperations ==
    UNION {{call.ret[i].operations[j].operation :
               j \in 1..Len(call.ret[i].operations)} : i \in 1..Len(call.ret)}

\* C6: a report request that contains an operation of importance HIGH is
\* answered with None, and no operation of an importance other than LOW is in
\* a request returned by the report aggregator's flush, also for requests that
\* mix LOW and HIGH operations.
C6_Original ==
    /\ (ReportCalled /\ has_high_important_operation_any(call.req))
          => call.ret = None
    /\ call.name = "report_flush"
          => \A op \in FlushedOperations : op.importance = "LOW"

-----------------------------------------------------------------------------
(* Properties of the aggregators without a cache *)

\* C7: with num_entries < 0, whatever calls were made, check, allocate_quota
\* and report return None, every flush returns an empty list and every
\* flush_interval is None.
C7_NoCachePassthrough ==
    (c_opts.num_entries < 0 /\ r_opts.num_entries < 0 /\ q_opts.num_entries < 0)
    => /\ call.name \in {"check", "allocate_quota", "report"} => call.ret = None
       /\ call.name \in {"flush", "quota_flush", "report_flush"} => call.ret = <<>>
       /\ check_flush_interval(c_cache, c_opts) = None
       /\ report_flush_interval(r_cache, r_opts) = None
       /\ quota_flush_interval(q_cache, q_opts) = None

\* a check answered None right after a response was added for its signature
C7_Witness ==
    /\ c_opts.num_entries < 0 /\ r_opts.num_entries < 0 /\ q_opts.num_entries < 0
    /\ call.name = "check"
    /\ call.req.operation.importance = "LOW"
    /\ h_added[sign(call.req)] # <<>>
    /\ h_added[sign(call.req)][1].time = now
    /\ call.ret = None
    /\ now > 0

-----------------------------------------------------------------------------
(* Properties of the quota aggregator *)

\* the step is allocate_quota(req) for a signature the cache does not hold
QuotaMissStep(req) ==
    /\ call'.name = "allocate_quota"
    /\ call'.req = req
    /\ q_cache # <<>>
    /\ CacheGet(q_cache[1], quota_sign(req), now) = <<>>

QuotaFlushStep == call'.name = "quota_flush" /\ q_cache # <<>>

\* what a missing allocate_quota(req) returns, stores and enqueues
QuotaMissEffect(req) ==
    /\ call'.ret = Some([operationId |-> req.allocateOperation.operationId,
                         allocateErrors |-> <<>>])
    /\ Live(q_cache'[1], quota_sign(req), now)
    /\ q_cache'[1].tracking[quota_sign(req)][1].is_in_flight
    /\ q_out' = Append(q_out, req)

\* C10 as stated: the first allocate_quota(req) for a signature not in the
\* cache returns a response without allocateErrors carrying req's operationId,
\* stores an entry marked is_in_flight and enqueues req, and the next flush
\* returns req, whatever is called in between.
C10_Original ==
    [][/\ \A req \in AllocateQuotaRequests : QuotaMissStep(req) => QuotaMissEffect(req)
       /\ QuotaFlushStep =>
             \A k \in QuotaSigs :
                h_missed[k] # <<>> => h_missed[k][1] \in Range(call'.ret)]_vars

\* C10: the first allocate_quota(req) for a signature not in the cache returns
\* a response without allocateErrors carrying req's operationId, stores an
\* entry marked is_in_flight and appends req to the outbound queue; the queue
\* only grows until a flush returns all of it, unless clear() empties it first.
C10_MissEnqueuesRequest ==
    [][/\ \A req \in AllocateQuotaRequests : QuotaMissStep(req) => QuotaMissEffect(req)
       /\ QuotaFlushStep =>
             /\ Len(call'.ret) >= Len(q_out)
             /\ SubSeq(call'.ret, 1, Len(q_out)) = q_out
             /\ q_out' = <<>>
       /\ (call'.name \notin {"quota_flush", "quota_clear"}) =>
             /\ Len(q_out') >= Len(q_out)
             /\ SubSeq(q_out', 1, Len(q_out)) = q_out]_vars

\* a miss has just stored an in-flight entry and enqueued its request
C10_Witness ==
    /\ call.name = "allocate_quota"
    /\ q_cache # <<>>
    /\ q_out = <<call.req>>
    /\ call.ret = Some(temp_response(call.req))
    /\ q_cache[1].tracking[quota_sign(call.req)][1].is_in_flight
    /\ call.req.allocateOperation.operationId = "op2"

\* the one quota signature of the merge scenario, and the item cached for it
MergeSig == <<"m1", "testConsumerID">>

MergeItem == q_cache[1].tracking[MergeSig][1]

MergeRequest(cost) ==
    [serviceName |-> ServiceName,
     allocateOperation |->
        [methodName |-> "m1", consumerId |-> "testConsumerID",
         operationId |-> "op1", quotaMode |-> "BEST_EFFORT", cost |-> cost]]

\* allocate_quota was called with cost 2 (a miss), then with costs 3 and 5, no
\* flush and no add_response came in between, and a flush interval has passed
MergedTwoThreeFive ==
    /\ q_cache # <<>>
    /\ Live(q_cache[1], MergeSig, now)
    /\ MergeItem.request.cost = 2
    /\ MergeItem.op_aggregator # <<>>
    /\ MergeItem.op_aggregator[1].n = 2
    /\ MergeItem.op_aggregator[1].cost = 8
    /\ q_out = <<MergeRequest(2)>>
    /\ now >= MergeItem.last_check_time + q_opts.flush_interval

\* C11 as stated: after allocate_quota with costs 2, 3 and 5 and one flush
\* interval, flush() returns exactly one request, whose value for m is 10.
C11_Original ==
    [][(QuotaFlushStep /\ MergedTwoThreeFive)
          => /\ Len(call'.ret) = 1
             /\ call'.ret[1].allocateOperation.cost = 10]_vars

\* C11: after allocate_quota with costs 2, 3 and 5 and one flush interval,
\* flush() returns exactly one request, the first call's request with value 2;
\* the costs 3 and 5 stay merged in the entry (value 8), which is in flight.
C11_FlushReturnsFirstRequest ==
    [][(QuotaFlushStep /\ MergedTwoThreeFive)
          => /\ call'.ret = <<MergeRequest(2)>>
             /\ q_cache'[1].tracking[MergeSig][1].is_in_flight
             /\ q_cache'[1].tracking[MergeSig][1].op_aggregator[1].cost = 8
             /\ q_cache'[1].tracking[MergeSig][1].op_aggregator[1].n = 2]_vars

\* the flush of the merge scenario has returned the first request and the
\* entry still holds the merged costs 3 and 5
C11_Witness ==
    /\ call.name = "quota_flush"
    /\ call.ret = <<MergeRequest(2)>>
    /\ q_cache # <<>>
    /\ Live(q_cache[1], MergeSig, now)
    /\ MergeItem.op_aggregator # <<>>
    /\ MergeItem.op_aggregator[1].cost = 8
    /\ MergeItem.op_aggregator[1].n = 2
    /\ MergeItem.request.cost = 2
    /\ now >= MergeItem.last_check_time + q_opts.flush_interval

\* the quotaMode the emitted request of an entry should carry
ModeFor(item) ==
    IF is_positive_response(item) THEN "BEST_EFFORT" ELSE "NORMAL"

\* C12: every request the quota aggregator emits, through the outbound queue
\* from allocate_quota or from flush, is BEST_EFFORT when it is the initial
\* allocation or the entry's cached response is positive as it is emitted, and
\* NORMAL when the cached response is negative as it is emitted.
C12_Original ==
    [][/\ (call'.name = "allocate_quota" /\ q_cache # <<>> /\ Len(q_out') > Len(q_out))
             => LET got == CacheGet(q_cache[1], quota_sign(call'.req), now)
                    emitted == q_out'[Len(q_out')]
                IN emitted.allocateOperation.quotaMode =
                      IF got = <<>> THEN "BEST_EFFORT" ELSE ModeFor(got[1])
       /\ QuotaFlushStep
             => \A i \in (Len(q_out) + 1)..Len(call'.ret) :
                   call'.ret[i].allocateOperation.quotaMode =
                      ModeFor(q_cache[1].tracking[quota_sign(call'.ret[i])][1])]_vars

\* the requests a quota flush returned beyond those that were queued
ExtractedByFlush == SubSeq(call'.ret, Len(q_out) + 1, Len(call'.ret))

\* the item stored for k before the step, when the cache still yields it
QuotaStored(k) == CacheGet(q_cache[1], k, now)

QuotaAge(item) == now - item.last_check_time

\* C13 as stated: flush extracts a request from an entry only if the entry is
\* not in flight and its age is at least flush_interval and below expiration.
C13_Original ==
    [][QuotaFlushStep =>
         \A i \in 1..Len(ExtractedByFlush) :
            LET item == QuotaStored(quota_sign(ExtractedByFlush[i]))[1]
            IN /\ ~item.is_in_flight
               /\ QuotaAge(item) >= q_opts.flush_interval
               /\ QuotaAge(item) < q_opts.expiration]_vars

\* C13: flush extracts a request from an entry exactly when the entry is in
\* the cache, is not in flight, is younger than expiration and holds merged
\* operations, whatever its age is compared with flush_interval; the request
\* carries the merged operation.
C13_FlushExtractsPending ==
    [][QuotaFlushStep =>
         \A k \in QuotaSigs :
            LET got == QuotaStored(k)
                due == /\ got # <<>>
                       /\ ~got[1].is_in_flight
                       /\ QuotaAge(got[1]) < q_opts.expiration
                       /\ got[1].op_aggregator # <<>>
                mine == SelectSeq(ExtractedByFlush, LAMBDA r : quota_sign(r) = k)
            IN IF due
               THEN /\ Len(mine) = 1
                    /\ mine[1].allocateOperation.cost = got[1].op_aggregator[1].cost
               ELSE mine = <<>>]_vars

\* a flush has extracted the merged request of an entry whose response was
\* added at this very instant (age 0, below flush_interval)
C13_Witness ==
    /\ call.name = "quota_flush"
    /\ Len(call.ret) = 1
    /\ q_cache # <<>>
    /\ \E k \in QuotaSigs :
         /\ Live(q_cache[1], k, now)
         /\ q_cache[1].tracking[k][1].is_in_flight
         /\ q_cache[1].tracking[k][1].op_aggregator = <<>>
         /\ q_cache[1].tracking[k][1].last_check_time = now
         /\ ~is_positive_response(q_cache[1].tracking[k][1])

\* the requests of signature k among reqs
QuotaRequestsFor(reqs, k) == SelectSeq(reqs, LAMBDA r : quota_sign(r) = k)

\* a positive response was added for k and allocate_quota was called for k at
\* least once since, with no flush or clear in between
FurtherCalls(k) == h_further[k] # <<>> /\ h_further[k][1].n >= 1

\* C14 as stated: for an entry that received a positive response, after k >= 1
\* further allocate_quota calls the next flush returns exactly one request for
\* its fingerprint, carrying the summed cost of those calls, and leaves the
\* entry in flight without a pending aggregate.
C14_Original ==
    [][QuotaFlushStep =>
         \A k \in QuotaSigs :
            FurtherCalls(k) =>
               /\ Len(QuotaRequestsFor(call'.ret, k)) = 1
               /\ QuotaRequestsFor(call'.ret, k)[1].allocateOperation.cost
                     = h_further[k][1].sum
               /\ Live(q_cache'[1], k, now)
               /\ q_cache'[1].tracking[k][1].is_in_flight
               /\ q_cache'[1].tracking[k][1].op_aggregator = <<>>]_vars

\* C14: when the further calls and the flush all come less than flush_interval
\* after the positive response was added, the flush extracts exactly one
\* request from the entry, carrying the summed cost of those calls and of the
\* calls that were merged before the response and not yet extracted, and
\* leaves the entry in flight without a pending aggregate.
C14_FlushReturnsMergedCalls ==
    [][QuotaFlushStep =>
         \A k \in QuotaSigs :
            (/\ FurtherCalls(k)
             /\ QuotaStored(k) # <<>>
             /\ QuotaAge(QuotaStored(k)[1]) < q_opts.flush_interval)
            => /\ Len(QuotaRequestsFor(ExtractedByFlush, k)) = 1
               /\ QuotaRequestsFor(ExtractedByFlush, k)[1].allocateOperation.cost
                     = h_further[k][1].pre + h_further[k][1].sum
               /\ Live(q_cache'[1], k, now)
               /\ q_cache'[1].tracking[k][1].is_in_flight
               /\ q_cache'[1].tracking[k][1].op_aggregator = <<>>]_vars

\* a flush has extracted the one request of an entry with a positive response
\* added at this instant, carrying the summed cost 2 of the calls merged
C14_Witness ==
    /\ call.name = "quota_flush"
    /\ Len(call.ret) = 1
    /\ call.ret[1].allocateOperation.cost = 2
    /\ q_cache # <<>>
    /\ \E k \in QuotaSigs :
         /\ Live(q_cache[1], k, now)
         /\ q_cache[1].tracking[k][1].is_in_flight
         /\ q_cache[1].tracking[k][1].op_aggregator = <<>>
         /\ is_positive_response(q_cache[1].tracking[k][1])
         /\ q_cache[1].tracking[k][1].last_check_time = now

-----------------------------------------------------------------------------
(* Client.allocate_quota and Client.check when the transport fails *)

\* the step that ends a Client.allocate_quota which called the transport
QuotaSendStep == pc = "quota_send" /\ pc' = "idle"

\* the quota cache holds for the fingerprint of req a response without errors
QuotaResponseCached(cache, req, t) ==
    /\ cache # <<>>
    /\ CacheGet(cache[1], quota_sign(req), t) # <<>>
    /\ is_positive_response(CacheGet(cache[1], quota_sign(req), t)[1])

CheckSendStep == pc = "check_send" /\ pc' = "idle"

-----------------------------------------------------------------------------
(* The life cycle of a Client *)

\* the step ends the method name of Client, called when the calling thread
\* was in no method
MethodEnds(name) == pc = "idle" /\ ret' # <<>> /\ ret'[1].name = name

\* the step sends nothing and leaves the Client, its threads and the three
\* aggregators as they were
NothingDone ==
    /\ sent' = <<>>
    /\ UNCHANGED <<now, lifeVars, callerVars, flusherVars>>
    /\ UNCHANGED <<checkVars, reportVars, quotaVars>>

\* start() has never been called on the Client
IsNew == ~running /\ ~stopped

\* C17 as stated: on a Client on which start() has not been called, check,
\* allocate_quota, report and stop fail with an assertion error, send no RPC
\* and change no cache.
C17_Original ==
    [][\A name \in {"check", "allocate_quota", "report", "stop"} :
          (IsNew /\ MethodEnds(name))
          => /\ ret'[1].raised = <<"AssertionError">>
             /\ sent' = <<>>
             /\ UNCHANGED <<c_cache, r_cache, q_cache, q_out>>]_vars

\* C18: start() on a running Client and stop() on a stopped Client return
\* without sending an RPC and without changing the Client, its scheduler, its
\* thread or an aggregator.
C18_StartStopIdempotent ==
    [][/\ (running /\ MethodEnds("start"))
          => (ret'[1].raised = <<>> /\ NothingDone)
       /\ (stopped /\ MethodEnds("stop"))
          => (ret'[1].raised = <<>> /\ NothingDone)]_vars

\* start() has just returned on a Client whose scheduler thread, started by
\* an earlier start(), is inside scheduler.run()
C18_Witness ==
    /\ ret = Returned("start", None)
    /\ running
    /\ thread = <<"Thread">>
    /\ f_pc = "run"

\* C19 as stated: once stop() has been called, no call makes the Client
\* running again.
C19_Original ==
    [][h_stop_returned => ~(~running /\ running')]_vars

\* C19: a Client that is not running starts to run only inside start(), and
\* every start() on a Client that is not running, stopped before or not,
\* leaves it running and not stopped.
C19_OnlyStartRestarts ==
    [][/\ (~running /\ running') => MethodEnds("start")
       /\ (~running /\ MethodEnds("start")) => (running' /\ ~stopped')]_vars

\* start() has just returned on a Client that stop() had stopped, and the
\* Client is running
C19_Witness ==
    /\ h_stop_returned
    /\ ret # <<>>
    /\ ret[1].name = "start"
    /\ running
    /\ ~stopped

\* C20 as stated: after stop() has returned, and while no start() follows, the
\* Client puts no Check, AllocateQuota or Report RPC on the transport.
C20_Original ==
    [][(h_stop_returned /\ stopped) => sent' = <<>>]_vars

-----------------------------------------------------------------------------
(* Shutdown, batching and timing of the report aggregator *)

\* the operations a report cache still aggregates: those of its tracked
\* aggregators and those already moved to its out_deque
PendingOperations(cache) ==
    {cache.tracking[k][1].op : k \in {j \in DOMAIN cache.tracking :
                                         cache.tracking[j] # <<>>}}
    \cup {cache.out_deque[i].op : i \in 1..Len(cache.out_deque)}

\* the operations of a list of report requests
OperationsOf(reqs) ==
    UNION {{reqs[i].operations[j].operation : j \in 1..Len(reqs[i].operations)}
              : i \in 1..Len(reqs)}

\* the step is a clear() of a caching report aggregator that still aggregates
\* operations
ReportClearStep ==
    /\ r_cache # <<>>
    /\ PendingOperations(r_cache[1]) # {}
    /\ call'.name = "report_clear"
    /\ r_cache' # r_cache

\* C21 as stated: clear() of the report aggregator returns requests that hold
\* every operation still aggregated, so that none is dropped at shutdown.
C21_Original ==
    [][ReportClearStep
       => /\ call'.ret # None
          /\ PendingOperations(r_cache[1]) \subseteq OperationsOf(call'.ret)]_vars

\* the operations of a list of report requests, one request after the other
RECURSIVE ConcatOperations(_)
ConcatOperations(reqs) ==
    IF reqs = <<>> THEN <<>>
    ELSE Head(reqs).operations \o ConcatOperations(Tail(reqs))

\* C22: every request that flush packs holds at least 1 and at most 1000
\* operations, n flushed operations give ceil(n / 1000) requests, and the
\* operations of the requests, concatenated, are the flushed operations in
\* their order.
C22_BatchesOfAtMost1000 ==
    call.name = "report_requests"
    => /\ \A i \in 1..Len(call.ret) :
             /\ Len(call.ret[i].operations) >= 1
             /\ Len(call.ret[i].operations) <= 1000
       /\ Len(call.ret) = (Len(call.req) + 999) \div 1000
       /\ ConcatOperations(call.ret) = call.req

\* 2001 flushed operations were packed into three requests
C22_Witness ==
    /\ call.name = "report_requests"
    /\ Len(call.req) = 2001
    /\ Len(call.ret) = 3
    /\ Len(call.ret[3].operations) = 1


-----------------------------------------------------------------------------
(* C23: operations reported several times come out of a flush as one
   operation per fingerprint holding the sums of what was reported *)

\* how many operations of a request carry the fingerprint k
ReportedWith(req, k) ==
    Cardinality({i \in 1..Len(req.operations) :
                    sign_operation(req.operations[i]) = k})

\* how many operations the live aggregator of fingerprint k has merged
MergedFor(cache, k, t) ==
    IF CacheGet(cache, k, t) = <<>> THEN 0 ELSE CacheGet(cache, k, t)[1].n

\* a report that the aggregator accepted
ReportAccepted ==
    /\ r_cache # <<>>
    /\ call'.name = "report"
    /\ call'.ret = Some(CACHED_OK)

\* C23: every operation that an accepted report carries is summed into the
\* one aggregated operation of its fingerprint (each reported operation
\* counting for one in the DELTA sum the aggregate holds), so the flush that
\* emits the fingerprint emits one operation with the sum of all the
\* operations reported under it.
C23_Original ==
    [][ReportAccepted =>
          \A k \in DOMAIN r_cache'[1].tracking :
              (/\ ReportedWith(call'.req, k) > 0
               /\ r_cache'[1].tracking[k] # <<>>)
              => r_cache'[1].tracking[k][1].n
                    = MergedFor(r_cache[1], k, now) + ReportedWith(call'.req, k)]_vars


-----------------------------------------------------------------------------
(* C24: when a flush of the report aggregator returns an operation *)

\* the report aggregator holds an operation of fingerprint k that no flush
\* has returned yet
ReportPending(k) == r_cache # <<>> /\ r_cache[1].tracking[k] # <<>>

\* flush_interval has not yet elapsed since fingerprint k was first cached
\* (its link expires flush_interval after it was stored)
ReportNotDue(k) ==
    /\ ReportPending(k)
    /\ r_cache[1].links[k] # <<>>
    /\ now < r_cache[1].links[k][1]

\* more than flush_interval has elapsed since fingerprint k was first cached
ReportDue(k) ==
    /\ ReportPending(k)
    /\ (r_cache[1].links[k] = <<>> \/ r_cache[1].links[k][1] < now)

\* the fingerprints of the operations of a list of ReportRequests
FingerprintsOf(reqs) == {sign_operation(op) : op \in OperationsOf(reqs)}

\* C24: a flush returns no operation for a fingerprint first cached less than
\* flush_interval ago, and returns the operation of every fingerprint first
\* cached more than flush_interval ago, which it then no longer holds; a
\* report made in between leaves an operation that is due for the next flush
\* due for it.
C24_Original ==
    [][/\ (call'.name = "report_flush" /\ r_cache # <<>>) =>
            \A k \in ReportSigs :
                /\ ReportNotDue(k) => k \notin FingerprintsOf(call'.ret)
                /\ ReportDue(k) => /\ k \in FingerprintsOf(call'.ret)
                                   /\ r_cache'[1].tracking[k] = <<>>
                                   /\ r_cache'[1].out_deque = <<>>
       /\ (call'.name = "report" /\ r_cache # <<>>) =>
            \A k \in ReportSigs :
                ReportDue(k) => /\ r_cache'[1].tracking[k] = r_cache[1].tracking[k]
                                /\ ~Live(r_cache'[1], k, now)]_vars


-----------------------------------------------------------------------------
(* C25: the times and the log entries of an aggregated operation *)

\* the earlier of two times, a time that is not set yielding the other one
EarlierOf(a, b) ==
    IF a = NoTime THEN b ELSE IF b = NoTime THEN a ELSE IF a < b THEN a ELSE b

\* the later of two times, a time that is not set yielding the other one
LaterOf(a, b) ==
    IF a = NoTime THEN b ELSE IF b = NoTime THEN a ELSE IF a < b THEN b ELSE a

\* start_time <= end_time, a time that is not set being below every time
\* that is set
TimesOrdered(op) == op.startTime <= op.endTime

\* a step that calls add on an operation aggregator
AddStep == call'.name = "add" /\ call.name \in {"Aggregator", "add"}

\* C25: after add(B) on an aggregate A the start time is the earlier of A's
\* and B's, the end time the later of A's and B's (a time that is not set on
\* one side yields the other side's), the log entries are A's followed by
\* B's, and start_time <= end_time holds for the aggregate when it holds for
\* A and for B.
C25_TimesAndLogEntriesMerged ==
    [][AddStep =>
          LET A == call.ret.op
              B == call'.req
              merged == call'.ret.op
          IN /\ merged.startTime = EarlierOf(A.startTime, B.startTime)
             /\ merged.endTime = LaterOf(A.endTime, B.endTime)
             /\ merged.logEntries = A.logEntries \o B.logEntries
             /\ (TimesOrdered(A) /\ TimesOrdered(B)) => TimesOrdered(merged)]_vars

\* add was called with an operation whose start is later and whose end is
\* earlier than those the aggregate held after two operations with log entries
C25_Witness ==
    /\ call.name = "add"
    /\ call.adds = 2
    /\ call.req.startTime # NoTime
    /\ call.req.endTime # NoTime
    /\ call.ret.op.startTime # NoTime
    /\ call.ret.op.startTime < call.req.startTime
    /\ call.req.endTime < call.ret.op.endTime


-----------------------------------------------------------------------------
(* C26: the metric values of GAUGE and CUMULATIVE metrics *)

\* C26: when add brings a value of a GAUGE or CUMULATIVE metric whose
\* signature the aggregate already holds a value for, the aggregate then holds
\* the one of the two with the later end time, and the value it held before
\* when the end times are equal.
C26_Original ==
    [][AddStep =>
          \A i \in 1..Len(call'.req.metricValueSets) :
              LET name == call'.req.metricValueSets[i].metricName
                  mv == call'.req.metricValueSets[i].metricValues[1]
                  prior == call.ret.metric_values_by_name_then_sign[name][metric_value_sign(mv)]
                  held == call'.ret.metric_values_by_name_then_sign[name][metric_value_sign(mv)]
              IN (kind_of(call.ret.kinds, name) \in {"GAUGE", "CUMULATIVE"} /\ prior # <<>>)
                 => held = <<IF prior[1].endTime < mv.endTime THEN mv ELSE prior[1]>>]_vars


-----------------------------------------------------------------------------
(* C27: money.add on overflow *)

\* the amount of a Money in nanos
AmountOf(money) == money.units * BILLION + money.nanos

\* the largest and the smallest amount a valid Money holds
MaxAmount == INT64_MAX * BILLION + MAX_NANOS

MinAmount == INT64_MIN * BILLION - MAX_NANOS

\* money.add has been applied to two valid Money instances of one currency
ValidMoneyAdded ==
    /\ call.name = "money.add"
    /\ check_valid(call.req[1])
    /\ check_valid(call.req[2])
    /\ call.req[1].currencyCode = call.req[2].currencyCode

\* C27: the sum of two positive amounts that exceeds the int64 range of the
\* units raises an overflow error when allow_overflow is false and is
\* units INT64_MAX, nanos MAX_NANOS when it is true; the sum of two negative
\* amounts below the range raises, respectively is units INT64_MIN, nanos
\* -MAX_NANOS.
C27_OverflowRaisesOrSaturates ==
    ValidMoneyAdded =>
        LET a == call.req[1]
            b == call.req[2]
            allow_overflow == call.req[3]
        IN /\ (sign_of(a) > 0 /\ sign_of(b) > 0 /\ AmountOf(a) + AmountOf(b) > MaxAmount)
              => call.ret = IF allow_overflow
                            THEN Returned("add", Money(INT64_MAX, MAX_NANOS, a.currencyCode))
                            ELSE Raised("add", "OverflowError")
           /\ (sign_of(a) < 0 /\ sign_of(b) < 0 /\ AmountOf(a) + AmountOf(b) < MinAmount)
              => call.ret = IF allow_overflow
                            THEN Returned("add", Money(INT64_MIN, - MAX_NANOS, a.currencyCode))
                            ELSE Raised("add", "OverflowError")

\* units INT64_MAX - 1 plus units 2 with allow_overflow gave the largest Money
C27_Witness ==
    /\ ValidMoneyAdded
    /\ call.req[1].units = INT64_MAX - 1
    /\ call.req[2].units = 2
    /\ call.req[3]
    /\ call.ret = Returned("add", Money(INT64_MAX, MAX_NANOS, "JPY"))

-----------------------------------------------------------------------------
(* C28: money.add without overflow *)

\* C28: the sum of two valid Money instances of one currency whose amounts
\* add up to an amount a Money can hold is returned as a valid Money of
\* exactly that amount.
C28_Original ==
    (/\ ValidMoneyAdded
     /\ AmountOf(call.req[1]) + AmountOf(call.req[2]) <= MaxAmount
     /\ AmountOf(call.req[1]) + AmountOf(call.req[2]) >= MinAmount)
    => /\ call.ret[1].raised = <<>>
       /\ check_valid(call.ret[1].value)
       /\ AmountOf(call.ret[1].value) = AmountOf(call.req[1]) + AmountOf(call.req[2])


-----------------------------------------------------------------------------
(* C29: what the signature of a check or quota request depends on *)

\* the label set of a dict
LabelSet(a_dict) == {a_dict[i] : i \in 1..Len(a_dict)}

\* the currency code of a metric value, <<>> when it is not a moneyValue
CurrencyOf(mv) ==
    IF mv.moneyValue = <<>> THEN <<>> ELSE <<mv.moneyValue[1].currencyCode>>

\* two value sets agree on the metric name and, value by value, on the label
\* set and the currency code
ValueSetsAgree(s, t) ==
    /\ s.metricName = t.metricName
    /\ Len(s.metricValues) = Len(t.metricValues)
    /\ \A j \in 1..Len(s.metricValues) :
          /\ LabelSet(s.metricValues[j].labels) = LabelSet(t.metricValues[j].labels)
          /\ CurrencyOf(s.metricValues[j]) = CurrencyOf(t.metricValues[j])

\* two operations agree on method name, consumer id, label set, metric names,
\* each metric value's label set and currency code, and for checks on the
\* quota properties
OperationsAgree(op1, op2, is_check) ==
    /\ op1.operationName = op2.operationName
    /\ op1.consumerId = op2.consumerId
    /\ LabelSet(op1.labels) = LabelSet(op2.labels)
    /\ Len(op1.metricValueSets) = Len(op2.metricValueSets)
    /\ \A i \in 1..Len(op1.metricValueSets) :
          ValueSetsAgree(op1.metricValueSets[i], op2.metricValueSets[i])
    /\ is_check => op1.quotaProperties = op2.quotaProperties

\* C29: two check requests, or two quota requests, have the same signature
\* exactly when their operations agree on method name, consumer id, label
\* set, metric names, each metric value's label set and currency code (and
\* quota properties for checks); values, times, operation ids and the
\* insertion order of labels play no part.
C29_Original ==
    call.name \in {"check_request.sign", "quota_request.sign"} =>
        ((call.ret[1] = call.ret[2])
         <=> OperationsAgree(call.req[1], call.req[2], call.name = "check_request.sign"))


-----------------------------------------------------------------------------
(* C30: a rejected request leaves the aggregators as they were *)

\* a request of the wrong class, with a service name that is not the
\* aggregator's, without inner request or (for check and allocate_quota)
\* without operation
MalformedRequest(req, type, needs_operation) ==
    IF "type" \notin DOMAIN req
    THEN req.serviceName # ServiceName
    ELSE \/ req.type # type
         \/ req.serviceName # ServiceName
         \/ req.inner = <<>>
         \/ (needs_operation /\ req.inner[1].operation = <<>>)

\* the step is a call of the method on a caching aggregator with a malformed
\* request
RejectedCall(name, cache, type, needs_operation) ==
    /\ call'.name = name
    /\ cache # <<>>
    /\ MalformedRequest(call'.req, type, needs_operation)

\* C30: a check, allocate_quota or report call of a caching aggregator with a
\* malformed request raises ValueError and leaves the caches of the
\* aggregators and the outbound queue of the quota aggregator unchanged.
C30_RejectedLeavesCachesUnchanged ==
    [][(\/ RejectedCall("check", c_cache, "ServicecontrolServicesCheckRequest", TRUE)
        \/ RejectedCall("allocate_quota", q_cache,
                        "ServicecontrolServicesAllocateQuotaRequest", TRUE)
        \/ RejectedCall("report", r_cache, "ServicecontrolServicesReportRequest", FALSE))
       => /\ UNCHANGED <<c_cache, r_cache, q_cache, q_out>>
          /\ call'.ret = Raised(call'.name, "ValueError")]_vars

\* check has rejected a request for its service name while a response was
\* cached
C30_Witness ==
    /\ call.name = "check"
    /\ "type" \in DOMAIN call.req
    /\ call.req.serviceName = OtherServiceName
    /\ c_cache # <<>>
    /\ c_cache[1].lru # <<>>
    /\ call.ret = Raised("check", "ValueError")

-----------------------------------------------------------------------------
(* C31 *)

\* scheduler.run() takes the event of the given task off the queue
PopsEvent(e) ==
    /\ f_pc = "run"
    /\ e \in queue
    /\ queue' = queue \ {e}

-----------------------------------------------------------------------------
(* C32 *)

\* start() could not start its thread: the scheduler is run directly
InlineMode == running /\ thread = <<>>

\* the calling thread makes the aggregator call of Client.allocate_quota
ClientAllocateStep ==
    /\ pc = "idle"
    /\ call'.name = "allocate_quota"
    /\ \/ pc' = "quota_send"
       \/ ret' # <<>> /\ ret'[1].name = "allocate_quota"

\* C32 as stated: a start() whose thread cannot be created leaves the Client
\* running in inline mode, and in that mode an allocate_quota whose cache has
\* no entry for the request's fingerprint sends the request directly to the
\* transport.
C32_Original ==
    [][/\ (pc = "idle" /\ ~running /\ running' /\ f_pc' = "none")
          => InlineMode'
       /\ \A req \in ClientQuotaRequests :
             (InlineMode /\ ClientAllocateStep /\ QuotaMissStep(req))
             => pc' = "quota_send" /\ pc_req' = <<req>>]_vars

-----------------------------------------------------------------------------
(* C33 *)

\* the quota cache stores for k an item marked is_in_flight, expired or not
MarkedInFlight(k) ==
    /\ q_cache # <<>>
    /\ q_cache[1].tracking[k] # <<>>
    /\ q_cache[1].tracking[k][1].is_in_flight

\* the quota cache yields for k, at time t, an item marked is_in_flight
InFlightCached(cache, k, t) ==
    /\ cache # <<>>
    /\ CacheGet(cache[1], k, t) # <<>>
    /\ CacheGet(cache[1], k, t)[1].is_in_flight

\* the call made puts no request for k in the outbound queue: allocate_quota
\* appends none, and flush returns only what the queue held
EnqueuesNothingFor(k) ==
    IF call'.name = "quota_flush"
    THEN QuotaRequestsFor(call'.ret, k) = QuotaRequestsFor(q_out, k)
    ELSE QuotaRequestsFor(q_out', k) = QuotaRequestsFor(q_out, k)

\* a missing allocate_quota(req) enqueues req and nothing else and answers
\* without allocateErrors
MissEnqueuesOne ==
    \A req \in AllocateQuotaRequests :
       QuotaMissStep(req)
       => /\ q_out' = Append(q_out, req)
          /\ call'.ret # None
          /\ call'.ret[1].allocateErrors = <<>>

\* C33 as stated: a first call for a fingerprint enqueues exactly one request
\* and answers positively, and while an entry is marked in flight neither
\* allocate_quota nor flush enqueues another request for its fingerprint
\* until add_response clears the mark.
C33_Original ==
    [][/\ MissEnqueuesOne
       /\ \A k \in QuotaSigs :
             (MarkedInFlight(k) /\ call'.name \in {"allocate_quota", "quota_flush"})
             => EnqueuesNothingFor(k)]_vars

\* C33: a first call for a fingerprint enqueues exactly one request and
\* answers without allocateErrors.  While the cache yields an entry marked in
\* flight, that is until the entry expires or is cleared, allocate_quota
\* answers with the entry's cached response, neither allocate_quota nor flush
\* enqueues a request for its fingerprint, and only add_response takes the
\* mark off the entry.
C33_OneRequestWhileCached ==
    [][/\ MissEnqueuesOne
       /\ \A k \in QuotaSigs :
             /\ (/\ InFlightCached(q_cache, k, now)
                 /\ call'.name \in {"allocate_quota", "quota_flush"})
                => EnqueuesNothingFor(k)
             /\ (/\ InFlightCached(q_cache, k, now)
                 /\ call'.name = "allocate_quota"
                 /\ quota_sign(call'.req) = k)
                => call'.ret = Some(CacheGet(q_cache[1], k, now)[1].response)
             /\ (/\ InFlightCached(q_cache, k, now)
                 /\ q_cache' # <<>>
                 /\ CacheGet(q_cache'[1], k, now') # <<>>
                 /\ ~CacheGet(q_cache'[1], k, now')[1].is_in_flight)
                => call'.name = "quota_add_response"]_vars

\* a further allocate_quota was merged into an entry in flight whose first
\* request is the only one in the outbound queue
C33_Witness ==
    /\ call.name = "allocate_quota"
    /\ InFlightCached(q_cache, quota_sign(call.req), now)
    /\ CacheGet(q_cache[1], quota_sign(call.req), now)[1].op_aggregator # <<>>
    /\ Len(QuotaRequestsFor(q_out, quota_sign(call.req))) = 1
    /\ h_missed[quota_sign(call.req)] # <<>>

-----------------------------------------------------------------------------
(* C34 *)

\* a thread of _schedule_flushes at this position is inside a
\* _flush_schedule_ method
InFlushTask(at) == at \in {"send", "cleanup"}

\* C34 as stated: at every moment at most one background flusher thread is
\* executing flush tasks, whatever the sequence of start() and stop() calls.
C34_Original ==
    ~(/\ f_old # <<>>
      /\ InFlushTask(f_old[1].pc)
      /\ InFlushTask(f_pc))

-----------------------------------------------------------------------------
(* C35 *)

\* stop() has set _stopped on a Client that has a scheduler thread
StopCalled == stopped /\ thread # <<>>

\* a cache holds no entry (or there is no cache)
Cleared(cache) == cache = <<>> \/ cache[1].lru = <<>>

\* C35 as stated: once stop() has been called on a running Client with a
\* flusher thread, the thread enters no further event in the scheduler and
\* does not end by raising, and when it ends the Client is not running and the
\* check and report caches are cleared, also when a flush task was executing
\* while stop() was called.
C35_Original ==
    [][StopCalled
       => /\ f_pc # "dead" => f_pc' # "dead"
          /\ queue' \subseteq queue
          /\ (f_pc # "none" /\ f_pc' = "none")
             => ~running' /\ Cleared(c_cache') /\ Cleared(r_cache')]_vars

-----------------------------------------------------------------------------
(* C36 *)

\* the thread of _schedule_flushes sends a flushed request and the transport
\* fails
FlushSendFails ==
    /\ f_pc = "send"
    /\ f_reqs # <<>>
    /\ f_reqs' = Tail(f_reqs)
    /\ sent' # <<>>
    /\ sent'[1].outcome # "ok"

\* the thread of _schedule_flushes leaves the loop over the flushed requests
\* right after a send that failed
FlushEndsAfterFailure ==
    /\ f_pc = "send"
    /\ f_reqs = <<>>
    /\ f_pc' # "send"
    /\ sent # <<>>
    /\ sent[1].outcome # "ok"

\* C36 as stated: a transport failure while a periodic flush task sends a
\* flushed request is swallowed: the task goes on to the remaining requests
\* and enters itself in the scheduler again, flush_interval later.
C36_Original ==
    [][/\ FlushSendFails => f_pc' = "send"
       /\ FlushEndsAfterFailure
          => /\ f_pc' = after_task
             /\ Event(f_task) \in queue']_vars

-----------------------------------------------------------------------------
(* C37 *)

\* the lock a thread waits for: the next lock of its with statement, held by
\* another thread
WaitsFor(t) ==
    IF /\ l_call[t] # <<>>
       /\ ~l_call[t][1].done
       /\ l_call[t][1].entered < Len(with_locks(l_call[t][1].name))
    THEN LET lock == with_locks(l_call[t][1].name)[l_call[t][1].entered + 1]
         IN IF l_owner[lock] \notin {<<>>, <<t>>} THEN <<lock>> ELSE <<>>
    ELSE <<>>

Deadlocked ==
    \E t, u \in LockThreads :
        /\ t # u
        /\ WaitsFor(t) # <<>>
        /\ WaitsFor(u) # <<>>
        /\ l_owner[WaitsFor(t)[1]] = <<u>>
        /\ l_owner[WaitsFor(u)[1]] = <<t>>

\* C37: a thread that holds the lock of the outbound queue of the quota
\* aggregator holds the lock of its cache too, since every operation enters
\* the cache lock first, and under no interleaving of allocate_quota, flush,
\* clear and add_response do two threads wait for a lock the other holds.
C37_CacheLockFirstNoDeadlock ==
    /\ \A t \in LockThreads :
           l_owner["out"] = <<t>> => l_owner["cache"] = <<t>>
    /\ ~Deadlocked

\* one thread is inside clear with both locks held while the other waits at
\* the cache lock in allocate_quota
C37_Witness ==
    \E t, u \in LockThreads :
        /\ t # u
        /\ l_owner["cache"] = <<t>>
        /\ l_owner["out"] = <<t>>
        /\ l_call[t] # <<>>
        /\ l_call[t][1].name = "clear"
        /\ l_call[u] # <<>>
        /\ l_call[u][1].name = "allocate_quota"
        /\ WaitsFor(u) = <<"cache">>

-----------------------------------------------------------------------------
(* C38: what becomes of an entry the report cache has removed *)

\* the cache has removed the entry of key k, by expiry or by eviction, and its
\* value has not been moved to the out_deque yet
RemovedNotDelivered(cache, k, t) ==
    cache.tracking[k] # <<>> /\ ~Live(cache, k, t)

\* the value v removed under key k is still held for delivery, or has been
\* delivered to the out_deque
HeldOrDelivered(cache, k, v) ==
    \/ cache.tracking[k] = <<v>>
    \/ \E i \in 1..Len(cache.out_deque) : cache.out_deque[i] = v

\* C38: an entry the report cache has removed by TTL expiry or by LRU
\* eviction is, after any report or flush, still held for the out_deque, in
\* the out_deque, or among the operations the flush returned, also when the
\* step stores the same key again; nothing aggregated is lost.
C38_Original ==
    [][\A k \in ReportSigs :
          (/\ r_cache # <<>>
           /\ RemovedNotDelivered(r_cache[1], k, now)
           /\ call'.name # "report_clear") =>
              LET v == r_cache[1].tracking[k][1]
              IN \/ HeldOrDelivered(r_cache'[1], k, v)
                 \/ /\ call'.name = "report_flush"
                    /\ as_operation(v).operation \in OperationsOf(call'.ret)]_vars

-----------------------------------------------------------------------------
(* C39: what report() has merged when it returns CACHED_OK *)

\* the number of operations merged into the aggregators the cache yields for
\* the fingerprints ks at time t
RECURSIVE MergedInto(_, _, _)
MergedInto(cache, ks, t) ==
    IF ks = {}
    THEN 0
    ELSE LET k == CHOOSE x \in ks : TRUE
         IN MergedFor(cache, k, t) + MergedInto(cache, ks \ {k}, t)

\* C39: when report() returns CACHED_OK, every operation of the request has
\* been merged into the aggregator of its fingerprint: the aggregators
\* together hold as many more operations as the request carries, whether or
\* not some of them share a fingerprint.
C39_Original ==
    [][(/\ r_cache # <<>>
        /\ call'.name = "report"
        /\ call'.ret = Some(CACHED_OK)) =>
          MergedInto(r_cache'[1], ReportSigs, now)
            = MergedInto(r_cache[1], ReportSigs, now) + Len(call'.req.operations)]_vars

-----------------------------------------------------------------------------
(* C40: an in-flight quota entry after a failed send of the periodic flush *)

\* a request of fingerprint k is yet to be sent: it waits in the outbound
\* queue of the aggregator or among the requests the flush task still holds
QuotaRequestOutstanding(out, reqs, k) ==
    \/ \E i \in 1..Len(out) : quota_sign(out[i]) = k
    \/ \E i \in 1..Len(reqs) : quota_sign(reqs[i]) = k

\* the quota entry of k is cached and marked in flight, and no request is
\* left whose response would mark it not in flight
StuckInFlight(k) ==
    /\ InFlightCached(q_cache, k, now)
    /\ ~QuotaRequestOutstanding(q_out, IF f_task = "quota" THEN f_reqs ELSE <<>>, k)

\* C40: a quota cache entry marked in flight is eventually marked not in
\* flight again while it stays cached, also when the transport fails for its
\* request in the periodic quota flush: after the failed send the entry, as
\* long as it is cached and in flight, still has a request to be sent whose
\* response marks it not in flight, so the costs merged into it meanwhile
\* come out in a later flush.
C40_Original ==
    [][(FlushSendFails /\ f_task = "quota") =>
          LET k == quota_sign(Head(f_reqs))
          IN InFlightCached(q_cache', k, now') =>
                QuotaRequestOutstanding(q_out', f_reqs', k)]_vars

====
